---------------------------- MODULE Spec2Model ----------------------------
(***************************************************************************)
(* The hierarchical semantic index of src/app_auth.py: the folder scanner, *)
(* the chunker, the index builder (rebuild_index), the rebuild scheduler   *)
(* (debounced_rebuild / safe_rebuild / threading.Timer / rebuild_lock) and *)
(* the two-stage retriever (retrieve_hierarchical), as one state machine.  *)
(*                                                                         *)
(* Conventions.  Text is a sequence of one-character strings.  Python's    *)
(* 0-based positions are kept as values (a chunk index i is stored as i)   *)
(* and a sequence s is read at s[i + 1].  Python objects that the code     *)
(* mutates in place (the chunk_metadata list, the folder_indices dict) live *)
(* in a heap and the module-level globals hold references to them.  Time   *)
(* is abstract: a timer's debounce window ends when the timer fires.       *)
(***************************************************************************)
EXTENDS Integers, Sequences, FiniteSets, TLC

(***************************************************************************)
(* Program constants.                                                      *)
(***************************************************************************)
CHUNK_SIZE == 300
CHUNK_OVERLAP == 30
MIN_CHUNK_LEN == 50
TOP_K_FOLDERS == 2
TOP_K_CHUNKS == 3
FOLDER_SCAN_CAP == 100
DEFAULT_DOCS_FOLDER == "documents"
UPLOAD_FOLDER == "uploaded_docs"
ALLOWED_EXTENSIONS == {"txt", "pdf", "docx"}

(***************************************************************************)
(* Bounds of the model.                                                    *)
(***************************************************************************)
\* notify() calls (debounced_rebuild) issued over a run; one Timer each
MaxNotify == 2
\* of these, the uploads issued while retrievals are followed step by step
MaxUploads == 1
\* the notify() calls issued from the moment a debounced build is running
MaxMidBuild == 2

None == 0

Min(a, b) == IF a < b THEN a ELSE b

(***************************************************************************)
(* Text helpers: str.strip().                                              *)
(***************************************************************************)
IsSpace(c) == c \in {" ", "\n", "\t"}

\* str.lstrip, str.rstrip: the whitespace characters that nothing else
\* precedes (follows) are removed
LStrip(s) ==
    LET n == Cardinality({i \in 1..Len(s) : \A j \in 1..i : IsSpace(s[j])})
    IN  SubSeq(s, n + 1, Len(s))

RStrip(s) ==
    LET n == Cardinality({i \in 1..Len(s) : \A j \in i..Len(s) : IsSpace(s[j])})
    IN  SubSeq(s, 1, Len(s) - n)

\* the text taken as it is
Unstripped(s) == s

Strip(s) == RStrip(LStrip(s))

\* a slice that stops one character early
SliceShort(s, i, j) == SubSeq(s, i + 1, Min(j, Len(s)) - 1)

\* Python's text[i : j] for 0 <= i <= j
Slice(s, i, j) == SubSeq(s, i + 1, Min(j, Len(s)))

(***************************************************************************)
(* chunk_text: fragments of CHUNK_SIZE characters taken every              *)
(* CHUNK_SIZE - CHUNK_OVERLAP characters of the stripped text, each        *)
(* stripped, kept when longer than MIN_CHUNK_LEN; the whole stripped text  *)
(* when none is kept.                                                      *)
(***************************************************************************)
RECURSIVE ChunkLoop(_, _, _)
ChunkLoop(text, i, chunks) ==
    IF i >= Len(text) THEN chunks
    ELSE LET chunk == Strip(Slice(text, i, i + CHUNK_SIZE))
         IN  ChunkLoop(text, i + (CHUNK_SIZE - CHUNK_OVERLAP),
                       IF Len(chunk) > MIN_CHUNK_LEN
                       THEN Append(chunks, chunk) ELSE chunks)

\* the kept fragments returned as they are, none standing in when all are dropped
ChunksWithoutFallback(text) ==
    IF text = <<>> \/ Strip(text) = <<>> THEN <<>>
    ELSE ChunkLoop(Strip(text), 0, <<>>)

chunk_text(text) ==
    IF text = <<>> \/ Strip(text) = <<>> THEN <<>>
    ELSE LET t == Strip(text)
             chunks == ChunkLoop(t, 0, <<>>)
         IN  IF chunks # <<>> THEN chunks ELSE <<t>>

(***************************************************************************)
(* The file system under the two roots.  A root is a record                *)
(*   [exists, flat, subs]: the files directly in it, in os.listdir order,  *)
(* and its subdirectories [name, files], in os.listdir order.  A file is   *)
(* [name, ext, text]; a file whose text is empty or whitespace-only is one *)
(* the loaders reject with DocumentLoadError.                              *)
(***************************************************************************)
File(name, ext, text) == [name |-> name, ext |-> ext, text |-> text]
Dir(name, files) == [name |-> name, files |-> files]
Root(flat, subs) == [exists |-> TRUE, flat |-> flat, subs |-> subs]
NoRoot == [exists |-> FALSE, flat |-> <<>>, subs |-> <<>>]
FS(docs, uploads) == [documents |-> docs, uploaded_docs |-> uploads]

FileA == File("a.txt", "txt", <<"a", "a">>)
FileB == File("b.txt", "txt", <<"b", " ", "b">>)
FileC == File("c.txt", "txt", <<" ", "c", "a", " ">>)
FileBlank == File("e.txt", "txt", <<" ", " ">>)
FileOther == File("n.md", "md", <<"a">>)

\* The file-system states a run moves between.
Corpora ==
    << \* nothing under any root
       FS(Root(<<>>, <<>>), NoRoot),
       \* one category folder, one document
       FS(Root(<<>>, <<Dir("hr", <<FileA>>)>>), Root(<<>>, <<>>)),
       \* the flat root below after a folder was created in it and uploads
       \* were made: same folder name under both roots
       FS(Root(<<FileC, FileBlank, FileB>>, <<Dir("hr", <<FileB, FileOther>>)>>),
          Root(<<>>, <<Dir("hr", <<FileC>>), Dir("tmp", <<FileBlank>>)>>)),
       \* flat mode: the root has no subdirectory
       FS(Root(<<FileC, FileBlank, FileB>>, <<>>), NoRoot) >>

RootOf(fsys, base) ==
    IF base = DEFAULT_DOCS_FOLDER THEN fsys.documents ELSE fsys.uploaded_docs

(***************************************************************************)
(* allowed_file, load_document, load_documents_from_folder.                *)
(***************************************************************************)
allowed_file(f) == f.ext \in ALLOWED_EXTENSIONS

\* load_txt / load_pdf / load_docx raise DocumentLoadError on text that is
\* empty after strip(); TRUE when the load succeeds
load_document_ok(f) == Strip(f.text) # <<>>

\* the files of the listing that end up in the result: allowed extension,
\* and no DocumentLoadError
Loaded(f) == allowed_file(f) /\ load_document_ok(f)

load_documents_from_folder(files) ==
    LET kept == SelectSeq(files, Loaded)
    IN  [k \in 1..Len(kept) |-> [filename |-> kept[k].name, content |-> kept[k].text]]

(***************************************************************************)
(* scan_folder_structure: <<[folder, docs]>> in insertion order.           *)
(***************************************************************************)
RECURSIVE ScanSubdirs(_)
ScanSubdirs(subs) ==
    IF subs = <<>> THEN <<>>
    ELSE LET docs == load_documents_from_folder(Head(subs).files)
             rest == ScanSubdirs(Tail(subs))
         IN  IF docs # <<>>
             THEN <<[folder |-> Head(subs).name, docs |-> docs]>> \o rest
             ELSE rest

scan_folder_structure(root) ==
    IF ~root.exists THEN <<>>
    ELSE IF root.subs # <<>>
         THEN ScanSubdirs(root.subs)
         ELSE LET docs == load_documents_from_folder(root.flat)
              IN  IF docs # <<>> THEN <<[folder |-> "general", docs |-> docs]>>
                  ELSE <<>>


(***************************************************************************)
(* rebuild_index, the scan: both roots, each folder keyed by               *)
(* f"{basename(base)}_{folder}" (here the pair <<base, folder>>).          *)
(***************************************************************************)
StructuresOf(fsys, base) ==
    LET structure == scan_folder_structure(RootOf(fsys, base))
    IN  [i \in 1..Len(structure) |->
            [key |-> <<base, structure[i].folder>>,
             docs |-> structure[i].docs,
             base |-> base]]

AllStructures(fsys) ==
    StructuresOf(fsys, DEFAULT_DOCS_FOLDER) \o StructuresOf(fsys, UPLOAD_FOLDER)

(***************************************************************************)
(* The embedding capability (SentenceTransformer.encode followed by        *)
(* faiss.normalize_L2): a unit vector per text, here decided by the text's *)
(* first character.  Similarity is the dot product.                        *)
(***************************************************************************)
Embed(text) ==
    IF text = <<>> THEN <<0, -1>>
    ELSE CASE Head(text) = "a" -> <<1, 0>>
           [] Head(text) = "b" -> <<0, 1>>
           [] Head(text) = "c" -> <<-1, 0>>
           [] OTHER -> <<0, -1>>

Dot(u, v) == u[1] * v[1] + u[2] * v[2]

(***************************************************************************)
(* rebuild_index, the chunking loop: all_chunks, all_metadata,             *)
(* folder_indices_temp (a dict, kept in insertion order as a sequence of   *)
(* [folder, idxs]) and stats.  ts stands for datetime.now().               *)
(***************************************************************************)
EmptyStats == [total_chunks |-> 0, total_files |-> 0, folders |-> <<>>]

EmptyAcc == [chunks |-> <<>>, meta |-> <<>>, fi |-> <<>>, stats |-> EmptyStats]

\* positions all appended to the list of the first folder
FiAppendFirst(fi, folder, idx) ==
    IF fi = <<>> THEN <<[folder |-> folder, idxs |-> <<idx>>]>>
    ELSE [fi EXCEPT ![1].idxs = Append(@, idx)]

\* folder_indices_temp[folder_name].append(chunk_idx) on a defaultdict(list)
FiAppend(fi, folder, idx) ==
    IF \E k \in 1..Len(fi) : fi[k].folder = folder
    THEN LET at == CHOOSE k \in 1..Len(fi) : fi[k].folder = folder
         IN  [fi EXCEPT ![at].idxs = Append(@, idx)]
    ELSE Append(fi, [folder |-> folder, idxs |-> <<idx>>])

RECURSIVE AddChunks(_, _, _, _, _, _)
AddChunks(acc, doc_chunks, folder, filename, base, ts) ==
    IF doc_chunks = <<>> THEN acc
    ELSE LET chunk_idx == Len(acc.chunks)
             next == [acc EXCEPT
                        !.chunks = Append(@, Head(doc_chunks)),
                        !.meta = Append(@, [folder |-> folder,
                                            filename |-> filename,
                                            base_folder |-> base,
                                            timestamp |-> ts]),
                        !.fi = FiAppend(@, folder, chunk_idx)]
         IN  AddChunks(next, Tail(doc_chunks), folder, filename, base, ts)

\* the loop over the documents of a folder, in order (the first half of the
\* documents, then the second half)
RECURSIVE AddDocs(_, _, _, _, _)
AddDocs(acc, docs, folder, base, ts) ==
    IF docs = <<>> THEN acc
    ELSE IF Len(docs) = 1
    THEN AddChunks(acc, chunk_text(docs[1].content), folder, docs[1].filename, base, ts)
    ELSE LET half == Len(docs) \div 2
             first == AddDocs(acc, SubSeq(docs, 1, half), folder, base, ts)
         IN  \* the lists only grow; the test settles the first half before
             \* the second half is entered
             IF Len(first.chunks) >= Len(acc.chunks)
             THEN AddDocs(first, SubSeq(docs, half + 1, Len(docs)), folder, base, ts)
             ELSE first

\* the per-folder count taken from the whole chunk list
AddFolderCumulative(acc, fd, ts) ==
    LET after == AddDocs(acc, fd.docs, fd.key, fd.base, ts)
    IN  [after EXCEPT
            !.stats = [total_chunks |-> @.total_chunks + Len(after.chunks),
                       total_files |-> @.total_files + Len(fd.docs),
                       folders |-> Append(@.folders,
                                          [folder |-> fd.key,
                                           chunks |-> Len(after.chunks),
                                           files |-> Len(fd.docs)])]]

AddFolder(acc, fd, ts) ==
    LET after == AddDocs(acc, fd.docs, fd.key, fd.base, ts)
        folder_chunks == Len(after.chunks) - Len(acc.chunks)
        folder_files == Len(fd.docs)
    IN  [after EXCEPT
            !.stats = [total_chunks |-> @.total_chunks + folder_chunks,
                       total_files |-> @.total_files + folder_files,
                       folders |-> Append(@.folders,
                                          [folder |-> fd.key,
                                           chunks |-> folder_chunks,
                                           files |-> folder_files])]]

RECURSIVE AddFolders(_, _, _)
AddFolders(acc, structures, ts) ==
    IF structures = <<>> THEN acc
    ELSE AddFolders(AddFolder(acc, Head(structures), ts), Tail(structures), ts)

\* embeddings and the IndexFlatIP built from them: one vector per chunk, in order
BuildVectors(chunks) == [i \in 1..Len(chunks) |-> Embed(chunks[i])]


(***************************************************************************)
(* retrieve_hierarchical, its computations.  A step that can raise gives   *)
(* [ok |-> FALSE]; an index is <<>> (None) or <<vectors>>.                  *)
(***************************************************************************)
Raised == [ok |-> FALSE]

\* the similarity of the first chunk scanned, taken for the maximum
FirstOf(xs) == xs[1]

\* np.max
MaxOf(xs) == CHOOSE m \in {xs[k] : k \in 1..Len(xs)} : \A k \in 1..Len(xs) : m >= xs[k]

\* the order of argsort taken as it is, without [::-1]
NotReversed(xs) == xs

Reverse(xs) == [i \in 1..Len(xs) |-> xs[Len(xs) + 1 - i]]

\* [global_index.reconstruct(int(idx)) for idx in idxs]
Reconstruct(index, idxs) ==
    IF index = <<>> THEN Raised
    ELSE IF \E k \in 1..Len(idxs) : idxs[k] >= Len(index[1]) THEN Raised
    ELSE [ok |-> TRUE, val |-> [k \in 1..Len(idxs) |-> index[1][idxs[k] + 1]]]

\* np.dot(vecs, q_vec.T).flatten()
Similarities(vecs, q_vec) == [k \in 1..Len(vecs) |-> Dot(vecs[k], q_vec)]

\* stage 1: a score per folder, the maximum over its first FOLDER_SCAN_CAP chunks
RECURSIVE FolderScores(_, _, _)
FolderScores(fi, index, q_vec) ==
    IF fi = <<>> THEN [ok |-> TRUE, val |-> <<>>]
    ELSE LET chunk_indices == Head(fi).idxs
             rest == FolderScores(Tail(fi), index, q_vec)
             folder_vecs == Reconstruct(index,
                                SubSeq(chunk_indices, 1,
                                       Min(FOLDER_SCAN_CAP, Len(chunk_indices))))
         IN  IF chunk_indices = <<>> THEN rest
             ELSE IF ~folder_vecs.ok \/ ~rest.ok THEN Raised
             ELSE [ok |-> TRUE,
                   val |-> <<[folder |-> Head(fi).folder,
                              score |-> MaxOf(Similarities(folder_vecs.val, q_vec))]>>
                           \o rest.val]

\* the sort without reverse=True: ascending
RECURSIVE InsertNoReverse(_, _)
InsertNoReverse(sorted, x) ==
    IF sorted = <<>> THEN <<x>>
    ELSE IF Head(sorted).score <= x.score
         THEN <<Head(sorted)>> \o InsertNoReverse(Tail(sorted), x)
         ELSE <<x>> \o sorted

\* sorted(..., key=lambda x: x[1], reverse=True): stable, descending
RECURSIVE InsertDesc(_, _)
InsertDesc(sorted, x) ==
    IF sorted = <<>> THEN <<x>>
    ELSE IF Head(sorted).score >= x.score
         THEN <<Head(sorted)>> \o InsertDesc(Tail(sorted), x)
         ELSE <<x>> \o sorted

RECURSIVE SortedDesc(_, _)
SortedDesc(items, acc) ==
    IF items = <<>> THEN acc
    ELSE SortedDesc(Tail(items), InsertDesc(acc, Head(items)))

TopFolders(folder_scores, top_k_folders) ==
    LET sorted == SortedDesc(folder_scores, <<>>)
    IN  [k \in 1..Min(top_k_folders, Len(sorted)) |-> sorted[k].folder]

\* np.argsort(similarities): positions in ascending order of value, equal
\* values in their original order; position j comes after the positions of
\* smaller value and the earlier positions of equal value
Argsort(sims) ==
    LET n == Len(sims)
        before == [j \in 0..(n - 1) |->
                     Cardinality({i \in 0..(n - 1) :
                                     \/ sims[i + 1] < sims[j + 1]
                                     \/ sims[i + 1] = sims[j + 1] /\ i < j})]
    IN  [r \in 1..n |-> CHOOSE j \in 0..(n - 1) : before[j] = r - 1]

\* np.argsort(similarities)[::-1][:top_k_chunks]
TopIndices(sims, top_k_chunks) ==
    LET order == Reverse(Argsort(sims))
    IN  SubSeq(order, 1, Min(top_k_chunks, Len(order)))

\* folder_indices[folder_name]
FolderLookup(fi, folder) ==
    IF \E k \in 1..Len(fi) : fi[k].folder = folder
    THEN [ok |-> TRUE, val |-> fi[CHOOSE k \in 1..Len(fi) : fi[k].folder = folder].idxs]
    ELSE Raised

\* stage 2, the search within one folder
SearchFolder(fi, chunks, index, folder, q_vec, top_k_chunks) ==
    LET chunk_indices == FolderLookup(fi, folder)
    IN  IF ~chunk_indices.ok THEN Raised
        ELSE IF \E k \in 1..Len(chunk_indices.val) : chunk_indices.val[k] >= Len(chunks)
        THEN Raised
        ELSE LET folder_embeddings == Reconstruct(index, chunk_indices.val)
             IN  IF ~folder_embeddings.ok THEN Raised
                 ELSE LET sims == Similarities(folder_embeddings.val, q_vec)
                      IN  [ok |-> TRUE,
                           chunk_indices |-> chunk_indices.val,
                           similarities |-> sims,
                           top_indices |-> TopIndices(sims, top_k_chunks)]

\* stage 2 without the test `if chunk in seen_chunks`
CollectWithDuplicates(chunks, meta, chunk_indices, sims, top_indices, results) ==
    IF \E k \in 1..Len(top_indices) :
           \/ chunk_indices[top_indices[k] + 1] >= Len(chunks)
           \/ chunk_indices[top_indices[k] + 1] >= Len(meta)
    THEN Raised
    ELSE [ok |-> TRUE,
          val |-> results \o
                  [k \in 1..Len(top_indices) |->
                     LET global_idx == chunk_indices[top_indices[k] + 1]
                     IN  [chunk |-> chunks[global_idx + 1],
                          folder |-> meta[global_idx + 1].folder,
                          filename |-> meta[global_idx + 1].filename,
                          score |-> sims[top_indices[k] + 1]]]]

\* stage 2, the results of one folder: duplicates of a chunk text are skipped
RECURSIVE CollectResults(_, _, _, _, _, _)
CollectResults(chunks, meta, chunk_indices, sims, top_indices, results) ==
    IF top_indices = <<>> THEN [ok |-> TRUE, val |-> results]
    ELSE LET local_idx == Head(top_indices)
             global_idx == chunk_indices[local_idx + 1]
         IN  IF global_idx >= Len(chunks) THEN Raised
             ELSE LET chunk == chunks[global_idx + 1]
                  IN  IF \E k \in 1..Len(results) : results[k].chunk = chunk
                      THEN CollectResults(chunks, meta, chunk_indices, sims,
                                          Tail(top_indices), results)
                      ELSE IF global_idx >= Len(meta) THEN Raised
                      ELSE CollectResults(chunks, meta, chunk_indices, sims,
                               Tail(top_indices),
                               Append(results,
                                      [chunk |-> chunk,
                                       folder |-> meta[global_idx + 1].folder,
                                       filename |-> meta[global_idx + 1].filename,
                                       score |-> sims[local_idx + 1]]))

\* the whole call against one snapshot that does not change under it
RECURSIVE RetrieveFolders(_, _, _, _, _)
RetrieveFolders(snap, top_folders, q_vec, top_k_chunks, results) ==
    IF top_folders = <<>> THEN results
    ELSE LET found == SearchFolder(snap.fi, snap.chunks, snap.index, Head(top_folders),
                                   q_vec, top_k_chunks)
             got == IF found.ok
                    THEN CollectResults(snap.chunks, snap.meta, found.chunk_indices,
                                        found.similarities, found.top_indices, results)
                    ELSE Raised
         IN  IF ~got.ok THEN <<>>
             ELSE RetrieveFolders(snap, Tail(top_folders), q_vec, top_k_chunks, got.val)

RetrieveOn(snap, query, top_k_folders, top_k_chunks) ==
    IF snap.index = <<>> THEN <<>>
    ELSE LET q_vec == Embed(query)
             folder_scores == FolderScores(snap.fi, snap.index, q_vec)
         IN  IF ~folder_scores.ok THEN <<>>
             ELSE RetrieveFolders(snap, TopFolders(folder_scores.val, top_k_folders),
                                  q_vec, top_k_chunks, <<>>)

(***************************************************************************)
(* State.                                                                  *)
(***************************************************************************)
VARIABLES
    bscan,               \* the scan of the build in progress: an index into Corpora, or None
    heap,                \* objects by the id of the build that made them (0: module level)
    global_chunks,       \* reference to a chunk list
    global_index,        \* reference to a vector index, or None
    global_embed_model,  \* reference to an embedding model, or None
    chunk_metadata,      \* reference to a metadata list
    folder_indices,      \* reference to a folder -> positions dict
    last_index_update,   \* None or the time of the last successful build
    index_stats,         \* statistics (a value, replaced whole)
    rebuild_lock,        \* TRUE while held
    rebuild_timer,       \* reference to the latest Timer, or None
    nbuilds,             \* builds started so far (ids of their objects, their clock)
    bpc, bexc, bid,      \* per building thread: position, pending exception, build id
    bsaved,              \* per building thread: the published fields as the build found them
    tfinished,           \* per Timer: its `finished` event (set by cancel() and at the end)
    ncalls,              \* notify() calls begun
    ntimers,             \* Timer objects created
    npc, nexc,           \* per notifying thread: position in debounced_rebuild, exception raised
    reader,              \* the retrieving thread: position and locals of retrieve_hierarchical
    chunking,            \* a call of chunk_text on its own: argument and returned list
    event,               \* the file-system event the watchdog observer dispatched last, or NoEvent
    hist                 \* history: what has been observed, for stating properties

vars == <<bscan, heap, global_chunks, global_index, global_embed_model, chunk_metadata,
          folder_indices, last_index_update, index_stats, rebuild_lock, rebuild_timer,
          nbuilds, bpc, bexc, bid, bsaved, tfinished, ncalls, ntimers, npc, nexc,
          reader, chunking, event, hist>>

globals == <<global_chunks, global_index, global_embed_model, chunk_metadata,
             folder_indices, last_index_update, index_stats>>

\* the main thread (startup build) is thread 0; Timer t runs thread t
MainThread == 0
\* the Timers a run can create
MaxTimers == IF MaxNotify > MaxMidBuild THEN MaxNotify ELSE MaxMidBuild + 1
Timers == 1..MaxTimers
Threads == {MainThread} \cup Timers
\* threads that call debounced_rebuild: the watchdog observer and a request handler
Callers == {"watcher", "upload"}
\* one id per build that can start: the startup build and one per Timer
BuildIds == 0..(MaxTimers + 1)

EmptyObj ==
    [chunks |-> <<>>, vecs |-> <<>>, meta |-> <<>>, fi |-> <<>>, stats |-> EmptyStats]

\* the published fields, dereferenced: what the globals designate right now
Published ==
    [chunks |-> heap[global_chunks].chunks,
     index |-> IF global_index = None THEN <<>> ELSE <<heap[global_index].vecs>>,
     model |-> global_embed_model,
     meta |-> heap[chunk_metadata].meta,
     fi |-> heap[folder_indices].fi,
     stats |-> index_stats,
     updated |-> last_index_update]

\* the references themselves
PublishedRefs ==
    [chunks |-> global_chunks, index |-> global_index, model |-> global_embed_model,
     meta |-> chunk_metadata, fi |-> folder_indices]

Serving == bpc[MainThread] = "done"


\* a fully published snapshot, as a value
SnapshotOf(pub) == [chunks |-> pub.chunks, index |-> pub.index, meta |-> pub.meta,
                    fi |-> pub.fi]

EmptySnapshot == [chunks |-> <<>>, index |-> <<>>, meta |-> <<>>, fi |-> <<>>]

NoSaved == [pub |-> <<>>, refs |-> <<>>]

\* the retrieving thread between calls; its fields are the locals of
\* retrieve_hierarchical, `out` how the call ended, and the history fields
\* `during` (a build was in progress when the call began), `first` (the
\* snapshot last published in full at that moment) and `embed_failed`
ReaderIdle ==
    [pc |-> "idle", query |-> <<>>, top_k_folders |-> 0, top_k_chunks |-> 0,
     q_vec |-> <<>>, top_folders |-> <<>>, f |-> 0, chunk_indices |-> <<>>,
     similarities |-> <<>>, top_indices |-> <<>>, results |-> <<>>, out |-> "none",
     during |-> FALSE, first |-> <<>>, embed_failed |-> FALSE]

\* no event dispatched yet
NoEvent == [kind |-> "none", is_directory |-> FALSE, src_path |-> <<>>]

\* no call of chunk_text on its own
NoCall == [pc |-> "none", text |-> <<>>, out |-> <<>>]

Init ==
    /\ bscan = None
    /\ heap = [b \in BuildIds |-> EmptyObj]
    /\ global_chunks = 0
    /\ global_index = None
    /\ global_embed_model = None
    /\ chunk_metadata = 0
    /\ folder_indices = 0
    /\ last_index_update = None
    /\ index_stats = EmptyStats
    /\ rebuild_lock = FALSE
    /\ rebuild_timer = None
    /\ nbuilds = 0
    /\ bpc = [t \in Threads |-> IF t = MainThread THEN "start" ELSE "none"]
    /\ bexc = [t \in Threads |-> "none"]
    /\ bid = [t \in Threads |-> 0]
    /\ bsaved = NoSaved
    /\ tfinished = [t \in Timers |-> FALSE]
    /\ ncalls = 0
    /\ ntimers = 0
    /\ npc = [c \in Callers |-> "idle"]
    /\ nexc = [c \in Callers |-> "none"]
    /\ reader = ReaderIdle
    /\ chunking = NoCall
    /\ event = NoEvent
    /\ hist = [bursts |-> 0, overlap |-> FALSE, unserved |-> FALSE, failed |-> FALSE]

(***************************************************************************)
(* rebuild_index.                                                          *)
(***************************************************************************)
\* a global is rebound from `old` to `new`: the object it designated has no
\* other reference and is reclaimed (its slot of the heap returns to the
\* empty value)
Unref(h, old, new, field) ==
    IF old = new THEN h ELSE [h EXCEPT ![old] = [@ EXCEPT ![field] = EmptyObj[field]]]

\* a build that enters without looking at the lock
LockIgnored == TRUE

\* `with rebuild_lock:` blocks until the lock is free
LockFree == ~rebuild_lock

\* a build that accumulates into the published chunk list
WorkAreaPublished(t) == global_chunks

\* all_chunks, all_metadata, folder_indices_temp, stats: fresh objects, local
\* to the build until the publication
WorkArea(t) == bid[t]

\* an empty path that leaves the old index in place
EmptyIndexStale == global_index

\* `global_index = None` of the empty path
EmptyIndex == None

\* entering the lock, then the scan of both roots; i is the state the file
\* system has reached by then (uploads, edits and deletions go on under the
\* running service, and only the scan reads them)
BuildStart(t, i) ==
    /\ bpc[t] = "start"
    /\ LockFree
    /\ bscan' = IF AllStructures(Corpora[i]) = <<>> THEN None ELSE i
    /\ rebuild_lock' = TRUE
    /\ nbuilds' = nbuilds + 1
    /\ bid' = [bid EXCEPT ![t] = nbuilds + 1]
    /\ bpc' = [bpc EXCEPT ![t] =
                 IF AllStructures(Corpora[i]) = <<>> THEN "empty1" ELSE "compute"]
    /\ bsaved' = [pub |-> Published, refs |-> PublishedRefs]
    /\ hist' = [hist EXCEPT !.unserved = FALSE]
    /\ UNCHANGED <<chunking, event>>
    /\ UNCHANGED <<heap, globals, rebuild_timer, bexc, tfinished, ncalls, ntimers,
                   npc, nexc, reader>>

\* `if not all_structures:` the fields are reset one statement at a time
BuildEmpty(t) ==
    /\ bpc[t] \in {"empty1", "empty2", "empty3", "empty4", "empty5", "empty6"}
    /\ global_chunks' = IF bpc[t] = "empty1" THEN bid[t] ELSE global_chunks
    /\ global_index' = IF bpc[t] = "empty2" THEN EmptyIndex ELSE global_index
    /\ global_embed_model' = IF bpc[t] = "empty3" THEN None ELSE global_embed_model
    /\ heap' = CASE bpc[t] = "empty1" -> Unref(heap, global_chunks, bid[t], "chunks")
                 [] bpc[t] = "empty2" -> Unref(heap, global_index, EmptyIndex, "vecs")
                 [] bpc[t] = "empty4" -> [heap EXCEPT ![chunk_metadata].meta = <<>>]
                 [] bpc[t] = "empty5" -> [heap EXCEPT ![folder_indices].fi = <<>>]
                 [] OTHER -> heap
    /\ index_stats' = IF bpc[t] = "empty6" THEN EmptyStats ELSE index_stats
    /\ bpc' = [bpc EXCEPT ![t] =
                 CASE @ = "empty1" -> "empty2" [] @ = "empty2" -> "empty3"
                   [] @ = "empty3" -> "empty4" [] @ = "empty4" -> "empty5"
                   [] @ = "empty5" -> "empty6" [] @ = "empty6" -> "release"]
    /\ UNCHANGED <<chunking, event>>
    /\ UNCHANGED <<bscan, chunk_metadata, folder_indices, last_index_update, rebuild_lock,
                   rebuild_timer, nbuilds, bexc, bid, bsaved, tfinished, ncalls, ntimers,
                   npc, nexc, reader, hist>>

\* what can go wrong between the scan and the end of the chunking loop: the
\* model does not load, or chunking raises for every document (each logged
\* and skipped)
ChunkOutcomes == {"ok", "model", "chunking"}

\* what can go wrong between the chunking loop and the publication
BuildOutcomes == {"ok", "embeddings", "faiss"}

\* the chunking loop over what the scan found, for each file-system state
\* and each time of build (tabulated once)
ChunkedTable ==
    [i \in 1..Len(Corpora) |->
        [ts \in BuildIds |-> AddFolders(EmptyAcc, AllStructures(Corpora[i]), ts)]]

Chunked(scan, ts) == IF scan = None THEN EmptyAcc ELSE ChunkedTable[scan][ts]

\* the chunking loop when chunk_text raises for every document: no chunk, no
\* file counted, each folder in the statistics
UnchunkedTable ==
    [i \in 1..Len(Corpora) |->
        [EmptyAcc EXCEPT
            !.stats.folders =
                [k \in 1..Len(AllStructures(Corpora[i])) |->
                    [folder |-> AllStructures(Corpora[i])[k].key,
                     chunks |-> 0, files |-> 0]]]]

\* model load and chunking loop, on locals of the build
BuildChunk(t, outcome) ==
    /\ bpc[t] = "compute"
    /\ LET acc == IF outcome = "chunking" THEN UnchunkedTable[bscan]
                  ELSE Chunked(bscan, bid[t])
       IN  /\ bexc' = [bexc EXCEPT ![t] = IF outcome = "model" THEN "IndexBuildError" ELSE @]
           /\ bpc' = [bpc EXCEPT ![t] = IF outcome = "model" THEN "release" ELSE "chunked"]
           /\ heap' = [heap EXCEPT ![WorkArea(t)] =
                         IF outcome = "model" THEN EmptyObj
                         ELSE [chunks |-> acc.chunks, vecs |-> <<>>,
                               meta |-> acc.meta, fi |-> acc.fi, stats |-> acc.stats]]
    /\ bscan' = None
    /\ UNCHANGED <<chunking, event>>
    /\ UNCHANGED <<globals, rebuild_lock, rebuild_timer, nbuilds, bid, bsaved,
                   tfinished, ncalls, ntimers, npc, nexc, reader, hist>>

\* the test is left out
NoChunksAccepted(all_chunks) == FALSE

\* `if not all_chunks: raise IndexBuildError(...)`
NoChunksRaise(all_chunks) == all_chunks = <<>>

\* the test of the chunk list, embeddings, vector index: on locals of the build
BuildCompute(t, outcome) ==
    /\ bpc[t] = "chunked"
    /\ LET all_chunks == heap[WorkArea(t)].chunks
           raises == NoChunksRaise(all_chunks) \/ outcome # "ok"
       IN  /\ bexc' = [bexc EXCEPT ![t] = IF raises THEN "IndexBuildError" ELSE @]
           /\ bpc' = [bpc EXCEPT ![t] = IF raises THEN "release" ELSE "pub1"]
           \* on an exception the locals are dropped with the frame
           /\ heap' = [heap EXCEPT ![WorkArea(t)] =
                         IF raises THEN EmptyObj
                         ELSE [@ EXCEPT !.vecs = BuildVectors(all_chunks)]]
    /\ UNCHANGED <<chunking, event>>
    /\ UNCHANGED <<bscan, globals, rebuild_lock, rebuild_timer, nbuilds, bid, bsaved,
                   tfinished, ncalls, ntimers, npc, nexc, reader, hist>>

\* `# Update globals`: seven assignments, one at a time
BuildPublish(t) ==
    /\ bpc[t] \in {"pub1", "pub2", "pub3", "pub4", "pub5", "pub6", "pub7"}
    /\ global_chunks' = IF bpc[t] = "pub1" THEN WorkArea(t) ELSE global_chunks
    /\ global_index' = IF bpc[t] = "pub2" THEN WorkArea(t) ELSE global_index
    /\ global_embed_model' = IF bpc[t] = "pub3" THEN bid[t] ELSE global_embed_model
    /\ chunk_metadata' = IF bpc[t] = "pub4" THEN WorkArea(t) ELSE chunk_metadata
    /\ folder_indices' = IF bpc[t] = "pub5" THEN WorkArea(t) ELSE folder_indices
    /\ last_index_update' = IF bpc[t] = "pub6" THEN bid[t] ELSE last_index_update
    /\ index_stats' = IF bpc[t] = "pub7" THEN heap[WorkArea(t)].stats ELSE index_stats
    /\ heap' = CASE bpc[t] = "pub1" -> Unref(heap, global_chunks, WorkArea(t), "chunks")
                 [] bpc[t] = "pub2" -> Unref(heap, global_index, WorkArea(t), "vecs")
                 [] bpc[t] = "pub4" -> Unref(heap, chunk_metadata, WorkArea(t), "meta")
                 [] bpc[t] = "pub5" -> Unref(heap, folder_indices, WorkArea(t), "fi")
                 [] bpc[t] = "pub7" -> [heap EXCEPT ![WorkArea(t)].stats = EmptyStats]
                 [] OTHER -> heap
    /\ bpc' = [bpc EXCEPT ![t] =
                 CASE @ = "pub1" -> "pub2" [] @ = "pub2" -> "pub3"
                   [] @ = "pub3" -> "pub4" [] @ = "pub4" -> "pub5"
                   [] @ = "pub5" -> "pub6" [] @ = "pub6" -> "pub7"
                   [] @ = "pub7" -> "release"]
    /\ UNCHANGED <<chunking, event>>
    /\ UNCHANGED <<bscan, rebuild_lock, rebuild_timer, nbuilds, bexc, bid, bsaved,
                   tfinished, ncalls, ntimers, npc, nexc, reader, hist>>

\* leaving `with rebuild_lock:`, by return or by exception
LockReleasedOnExit(exc) == TRUE

BuildRelease(t) ==
    /\ bpc[t] = "release"
    /\ rebuild_lock' = IF LockReleasedOnExit(bexc[t]) THEN FALSE ELSE rebuild_lock
    /\ bpc' = [bpc EXCEPT ![t] = "after"]
    /\ bsaved' = NoSaved
    /\ UNCHANGED <<chunking, event>>
    /\ UNCHANGED <<bscan, heap, globals, rebuild_timer, nbuilds, bexc, bid, tfinished,
                   ncalls, ntimers, npc, nexc, reader, hist>>

\* a caller without a try around rebuild_index
CatchesNothing(exc) == FALSE

\* safe_rebuild (and the try around the startup build): what the caller's
\* except clauses catch
safe_rebuild_catches(exc) == exc \in {"IndexBuildError", "Exception"}

\* the caller of rebuild_index gets the result; a Timer sets `finished` after
\* its function returned
BuildReturn(t) ==
    /\ bpc[t] = "after"
    /\ LET caught == bexc[t] = "none" \/ safe_rebuild_catches(bexc[t])
       IN  /\ bpc' = [bpc EXCEPT ![t] = IF caught THEN "done" ELSE "crashed"]
           /\ bexc' = [bexc EXCEPT ![t] = IF caught THEN "none" ELSE @]
           /\ bid' = [bid EXCEPT ![t] = 0]
           /\ tfinished' = IF t \in Timers /\ caught
                           THEN [tfinished EXCEPT ![t] = TRUE] ELSE tfinished
           /\ hist' = IF bexc[t] # "none" /\ t \in Timers
                      THEN [hist EXCEPT !.failed = TRUE] ELSE hist
    /\ UNCHANGED <<chunking, event>>
    /\ UNCHANGED <<bscan, heap, globals, rebuild_lock, rebuild_timer, nbuilds, bsaved,
                   ncalls, ntimers, npc, nexc, reader>>


(***************************************************************************)
(* debounced_rebuild, one statement per step; every use of rebuild_timer   *)
(* reads the global again.  A call is one of at most `limit` calls.        *)
(*   idle   -> `if rebuild_timer:`                                         *)
(*   cancel -> `rebuild_timer.cancel()`: sets the Timer's finished event   *)
(*   create -> `rebuild_timer = threading.Timer(REBUILD_DEBOUNCE, ...)`    *)
(*   start  -> `rebuild_timer.start()`: a thread can be started once, a    *)
(*             second start() raises RuntimeError                          *)
(***************************************************************************)
\* a Timer whose window is open: started, not yet fired, not cancelled
WindowOpen(t) == t # None /\ bpc[t] = "waiting" /\ ~tfinished[t]

\* a cancel() that leaves the Timer as it was
CancelIgnored(finished) == finished

\* what cancel() does to the finished event of the Timer it is called on
Cancelled(finished) == TRUE

\* a debounce that drops the call when a Timer exists
DropWhenTimerExists(timer) == IF timer # None THEN "idle" ELSE "create"

\* `if rebuild_timer:` where the call goes next
AfterTest(timer) == IF timer # None THEN "cancel" ELSE "create"

\* the statement of debounced_rebuild that thread c runs next
DebounceStep(c, limit) ==
    /\ Serving
    /\ npc[c] = "idle" => ncalls < limit
    /\ ncalls' = IF npc[c] = "idle" THEN ncalls + 1 ELSE ncalls
    /\ npc' = [npc EXCEPT ![c] =
                 CASE @ = "idle" -> AfterTest(rebuild_timer)
                   [] @ = "cancel" -> "create"
                   [] @ = "create" -> "start"
                   [] @ = "start" -> "idle"]
    /\ tfinished' = IF npc[c] = "cancel"
                    THEN [tfinished EXCEPT ![rebuild_timer] = Cancelled(@)]
                    ELSE tfinished
    /\ ntimers' = IF npc[c] = "create" THEN ntimers + 1 ELSE ntimers
    /\ rebuild_timer' = IF npc[c] = "create" THEN ntimers + 1 ELSE rebuild_timer
    /\ bpc' = CASE npc[c] = "create" -> [bpc EXCEPT ![ntimers + 1] = "created"]
                [] npc[c] = "start" /\ bpc[rebuild_timer] = "created" ->
                       [bpc EXCEPT ![rebuild_timer] = "waiting"]
                [] OTHER -> bpc
    /\ nexc' = IF npc[c] = "start" /\ bpc[rebuild_timer] # "created"
               THEN [nexc EXCEPT ![c] = "RuntimeError"] ELSE nexc
    \* a call that finds no Timer, or whose cancel() comes after the window of
    \* the Timer it cancels has ended, opens a new burst
    /\ hist' = CASE npc[c] = "idle" ->
                       [hist EXCEPT
                          !.bursts = IF rebuild_timer = None THEN @ + 1 ELSE @,
                          !.overlap = @ \/ (\E d \in Callers \ {c} : npc[d] # "idle"),
                          !.unserved = TRUE]
                 [] npc[c] = "cancel" ->
                       [hist EXCEPT
                          !.bursts = IF WindowOpen(rebuild_timer) THEN @ ELSE @ + 1]
                 [] OTHER -> hist
    /\ UNCHANGED chunking
    /\ UNCHANGED <<bscan, heap, globals, rebuild_lock, nbuilds, bexc, bid, bsaved,
                   reader>>

\* a call made by a thread whose caller is not followed
debounced_rebuild(c, limit) == DebounceStep(c, limit) /\ UNCHANGED event

(***************************************************************************)
(* threading.Timer.run: finished.wait(interval); if not finished.is_set(): *)
(* function().  The debounce window ends when wait() returns on timeout;   *)
(* a cancelled Timer ends without calling safe_rebuild.                    *)
(***************************************************************************)
TimerRun(t) ==
    /\ bpc[t] = "waiting"
    /\ bpc' = [bpc EXCEPT ![t] = IF tfinished[t] THEN "done" ELSE "start"]
    /\ UNCHANGED <<chunking, event>>
    /\ UNCHANGED <<bscan, heap, globals, rebuild_lock, rebuild_timer, nbuilds, bexc, bid,
                   bsaved, tfinished, ncalls, ntimers, npc, nexc, reader, hist>>

(***************************************************************************)
(* retrieve_hierarchical, as the request thread runs it: every use of a    *)
(* global reads it again, and no lock is taken.                            *)
(***************************************************************************)
Queries == {<<"a">>, <<"b">>}
TopFolderArgs == {1, TOP_K_FOLDERS}

\* the build in progress has not yet rebound or cleared the last of the
\* fields a retrieval reads
BeforeSwap(pc) ==
    pc \in {"compute", "chunked", "pub1", "pub2", "pub3", "pub4", "pub5",
            "empty1", "empty2", "empty3", "empty4", "empty5"}

Building == \E t \in Threads : BeforeSwap(bpc[t])

\* the snapshot most recently published in full
LastPublished == IF Building THEN SnapshotOf(bsaved.pub) ELSE SnapshotOf(Published)

\* a try that begins after the query was encoded
TryAfterEncode(stage) == stage \in {"stage1", "folder", "results"}

\* the `try:` of retrieve_hierarchical spans every stage after the first test
InsideTry(stage) == stage \in {"encode", "stage1", "folder", "results"}

\* how the call ends: return results, or an exception raised in `stage`
Ended(r, results, stage) ==
    [ReaderIdle EXCEPT
        !.pc = "done", !.query = r.query, !.top_k_folders = r.top_k_folders,
        !.top_k_chunks = r.top_k_chunks,
        !.results = IF stage = "none" THEN results ELSE <<>>,
        !.out = IF stage = "none" THEN "returned"
                ELSE IF InsideTry(stage) THEN "caught" ELSE "raised",
        !.during = r.during, !.first = r.first,
        !.embed_failed = r.embed_failed]

\* `if global_index is None or global_embed_model is None: return []`
RetrieveBegin(query, top_k_folders) ==
    /\ Serving
    /\ reader.pc = "idle"
    /\ LET r == [ReaderIdle EXCEPT
                    !.query = query, !.top_k_folders = top_k_folders,
                    !.top_k_chunks = TOP_K_CHUNKS,
                    !.first = LastPublished,
                    !.during = Building]
       IN  reader' = IF global_index = None \/ global_embed_model = None
                     THEN Ended(r, <<>>, "none")
                     ELSE [r EXCEPT !.pc = "encode"]
    /\ UNCHANGED <<chunking, event>>
    /\ UNCHANGED <<bscan, heap, globals, rebuild_lock, rebuild_timer, nbuilds, bpc, bexc,
                   bid, bsaved, tfinished, ncalls, ntimers, npc, nexc, hist>>

\* `q_vec = global_embed_model.encode([query], ...)`; the model may fail
RetrieveEncode(encodes) ==
    /\ reader.pc = "encode"
    /\ reader' =
         IF global_embed_model = None THEN Ended(reader, <<>>, "encode")
         ELSE IF ~encodes
              THEN Ended([reader EXCEPT !.embed_failed = TRUE], <<>>, "encode")
              ELSE [reader EXCEPT !.pc = "stage1", !.q_vec = Embed(reader.query)]
    /\ UNCHANGED <<chunking, event>>
    /\ UNCHANGED <<bscan, heap, globals, rebuild_lock, rebuild_timer, nbuilds, bpc, bexc,
                   bid, bsaved, tfinished, ncalls, ntimers, npc, nexc, hist>>

\* stage 1: folder scores from folder_indices and global_index, top folders
RetrieveStage1 ==
    /\ reader.pc = "stage1"
    /\ LET folder_scores == FolderScores(heap[folder_indices].fi, Published.index,
                                         reader.q_vec)
           top == TopFolders(folder_scores.val, reader.top_k_folders)
       IN  reader' =
             IF ~folder_scores.ok THEN Ended(reader, <<>>, "stage1")
             ELSE IF top = <<>> THEN Ended(reader, <<>>, "none")
             ELSE [reader EXCEPT !.pc = "folder", !.top_folders = top, !.f = 1]
    /\ UNCHANGED <<chunking, event>>
    /\ UNCHANGED <<bscan, heap, globals, rebuild_lock, rebuild_timer, nbuilds, bpc, bexc,
                   bid, bsaved, tfinished, ncalls, ntimers, npc, nexc, hist>>

\* stage 2, one folder: folder_indices, global_chunks and global_index are read
RetrieveFolder ==
    /\ reader.pc = "folder"
    /\ LET found == SearchFolder(heap[folder_indices].fi, heap[global_chunks].chunks,
                                 Published.index, reader.top_folders[reader.f],
                                 reader.q_vec, reader.top_k_chunks)
       IN  reader' =
             IF ~found.ok THEN Ended(reader, <<>>, "folder")
             ELSE [reader EXCEPT !.pc = "results",
                                 !.chunk_indices = found.chunk_indices,
                                 !.similarities = found.similarities,
                                 !.top_indices = found.top_indices]
    /\ UNCHANGED <<chunking, event>>
    /\ UNCHANGED <<bscan, heap, globals, rebuild_lock, rebuild_timer, nbuilds, bpc, bexc,
                   bid, bsaved, tfinished, ncalls, ntimers, npc, nexc, hist>>

\* stage 2, the results of that folder: global_chunks and chunk_metadata are read
RetrieveResults ==
    /\ reader.pc = "results"
    /\ LET got == CollectResults(heap[global_chunks].chunks, heap[chunk_metadata].meta,
                                 reader.chunk_indices, reader.similarities,
                                 reader.top_indices, reader.results)
       IN  reader' =
             IF ~got.ok THEN Ended(reader, <<>>, "results")
             ELSE IF reader.f = Len(reader.top_folders)
                  THEN Ended(reader, got.val, "none")
                  ELSE [reader EXCEPT !.pc = "folder", !.f = @ + 1,
                                      !.results = got.val,
                                      !.chunk_indices = <<>>, !.similarities = <<>>,
                                      !.top_indices = <<>>]
    /\ UNCHANGED <<chunking, event>>
    /\ UNCHANGED <<bscan, heap, globals, rebuild_lock, rebuild_timer, nbuilds, bpc, bexc,
                   bid, bsaved, tfinished, ncalls, ntimers, npc, nexc, hist>>

\* the caller takes the result
RetrieveReturn ==
    /\ reader.pc = "done"
    /\ reader' = ReaderIdle
    /\ UNCHANGED <<chunking, event>>
    /\ UNCHANGED <<bscan, heap, globals, rebuild_lock, rebuild_timer, nbuilds, bpc, bexc,
                   bid, bsaved, tfinished, ncalls, ntimers, npc, nexc, hist>>

NextSched ==
    \/ \E t \in Threads, i \in 1..Len(Corpora) : BuildStart(t, i)
    \/ \E t \in Threads : BuildEmpty(t)
    \/ \E t \in Threads, o \in ChunkOutcomes : BuildChunk(t, o)
    \/ \E t \in Threads, o \in BuildOutcomes : BuildCompute(t, o)
    \/ \E t \in Threads : BuildPublish(t)
    \/ \E t \in Threads : BuildRelease(t)
    \/ \E t \in Threads : BuildReturn(t)
    \/ \E c \in Callers : debounced_rebuild(c, MaxNotify)
    \/ \E t \in Timers : TimerRun(t)

SpecSched == Init /\ [][NextSched]_vars

\* the next statement of the build run by thread t
BuildStep(t) ==
    \/ \E i \in 1..Len(Corpora) : BuildStart(t, i)
    \/ BuildEmpty(t)
    \/ \E o \in ChunkOutcomes : BuildChunk(t, o)
    \/ \E o \in BuildOutcomes : BuildCompute(t, o)
    \/ BuildPublish(t)
    \/ BuildRelease(t)
    \/ BuildReturn(t)

\* a call of debounced_rebuild that has begun runs to its end
NotifyContinue(c) == npc[c] # "idle" /\ debounced_rebuild(c, MaxNotify)

\* a step of a thread that is running: a build, a Timer, a call of
\* debounced_rebuild that has begun (new calls need not come)
ThreadStep ==
    \/ \E t \in Threads : BuildStep(t)
    \/ \E t \in Timers : TimerRun(t)
    \/ \E c \in Callers : NotifyContinue(c)

\* the scheduler under the operating system's thread scheduling: while some
\* thread can take its next step, one does, and a started Timer ends its wait
FairSched == SpecSched /\ WF_vars(ThreadStep)

\* the service as a whole: one notifying thread, the file system changing
\* under it, and retrievals running against the builds
Next ==
    \/ \E t \in Threads, i \in 1..Len(Corpora) : BuildStart(t, i)
    \/ \E t \in Threads : BuildEmpty(t)
    \/ \E t \in Threads, o \in ChunkOutcomes : BuildChunk(t, o)
    \/ \E t \in Threads, o \in BuildOutcomes : BuildCompute(t, o)
    \/ \E t \in Threads : BuildPublish(t)
    \/ \E t \in Threads : BuildRelease(t)
    \/ \E t \in Threads : BuildReturn(t)
    \/ debounced_rebuild("upload", MaxUploads)
    \/ \E t \in Timers : TimerRun(t)
    \/ \E q \in Queries, k \in TopFolderArgs : RetrieveBegin(q, k)
    \/ \E e \in BOOLEAN : RetrieveEncode(e)
    \/ RetrieveStage1
    \/ RetrieveFolder
    \/ RetrieveResults
    \/ RetrieveReturn

Spec == Init /\ [][Next]_vars

(***************************************************************************)
(* Retrieval against a snapshot that no build replaces: the service right  *)
(* after its startup build of one of the file systems below, answering     *)
(* requests.                                                               *)
(***************************************************************************)
\* a folder too large for the folder ranking to read whole: FOLDER_SCAN_CAP
\* files far from the query "a", then one file that matches it
HugeFolderFiles ==
    [k \in 1..(FOLDER_SCAN_CAP + 1) |->
        IF k <= FOLDER_SCAN_CAP
        THEN File("c" \o ToString(k) \o ".txt", "txt", <<"c">>)
        ELSE File("z.txt", "txt", <<"a", "9">>)]

RetrievalCorpora ==
    << \* every chunk of "pol" is closer to the query "a" than any of "tech"
       FS(Root(<<>>, <<Dir("pol", <<File("p1.txt", "txt", <<"a", "1">>),
                                    File("p2.txt", "txt", <<"a", "2">>)>>),
                       Dir("tech", <<File("t1.txt", "txt", <<"c", "1">>),
                                     File("t2.txt", "txt", <<"d", "1">>)>>)>>),
          NoRoot),
       \* a folder of five chunks with distinct texts, a folder of two
       FS(Root(<<>>, <<Dir("two", <<File("x1.txt", "txt", <<"b", "7">>),
                                    File("x2.txt", "txt", <<"a", "7">>)>>),
                       Dir("five", <<File("f1.txt", "txt", <<"a", "1">>),
                                     File("f2.txt", "txt", <<"b", "1">>),
                                     File("f3.txt", "txt", <<"c", "1">>),
                                     File("f4.txt", "txt", <<"a", "2">>),
                                     File("f5.txt", "txt", <<"d", "1">>)>>)>>),
          NoRoot),
       \* files with the same text, within a folder and across the roots
       FS(Root(<<>>, <<Dir("dup", <<File("d1.txt", "txt", <<"a", "1">>),
                                    File("d2.txt", "txt", <<"b", "1">>),
                                    File("d3.txt", "txt", <<"a", "1">>),
                                    File("d4.txt", "txt", <<"c", "1">>),
                                    File("d5.txt", "txt", <<"d", "1">>)>>)>>),
          Root(<<>>, <<Dir("dup", <<File("u1.txt", "txt", <<"a", "1">>),
                                    File("u2.txt", "txt", <<"a", "3">>)>>)>>)),
       \* two folders of three chunks, one text present in both
       FS(Root(<<>>, <<Dir("faq", <<File("q1.txt", "txt", <<"a", "1">>),
                                    File("q2.txt", "txt", <<"b", "1">>),
                                    File("q3.txt", "txt", <<"c", "1">>)>>)>>),
          Root(<<>>, <<Dir("notes", <<File("n1.txt", "txt", <<"a", "1">>),
                                      File("n2.txt", "txt", <<"a", "2">>),
                                      File("n3.txt", "txt", <<"d", "1">>)>>)>>)),
       \* the chunk closest to the query "a" is the last of the second folder
       FS(Root(<<>>, <<Dir("ops", <<File("o1.txt", "txt", <<"b", "1">>),
                                    File("o2.txt", "txt", <<"c", "1">>)>>),
                       Dir("lab", <<File("l1.txt", "txt", <<"c", "2">>),
                                    File("l2.txt", "txt", <<"a", "1">>)>>)>>),
          NoRoot),
       \* a folder of more than FOLDER_SCAN_CAP chunks beside a small one
       FS(Root(<<>>, <<Dir("huge", HugeFolderFiles),
                       Dir("small", <<File("s1.txt", "txt", <<"b", "1">>)>>)>>),
          NoRoot) >>

\* the state in which the startup build of file system fsys has returned
\* and requests are served
InitServing(fsys) ==
    LET acc == AddFolders(EmptyAcc, AllStructures(fsys), 1)
    IN  /\ acc.chunks # <<>>
        /\ bscan = None
        /\ heap = [b \in BuildIds |->
                     IF b = 1
                     THEN [chunks |-> acc.chunks, vecs |-> BuildVectors(acc.chunks),
                           meta |-> acc.meta, fi |-> acc.fi, stats |-> EmptyStats]
                     ELSE EmptyObj]
        /\ global_chunks = 1
        /\ global_index = 1
        /\ global_embed_model = 1
        /\ chunk_metadata = 1
        /\ folder_indices = 1
        /\ last_index_update = 1
        /\ index_stats = acc.stats
        /\ rebuild_lock = FALSE
        /\ rebuild_timer = None
        /\ nbuilds = 1
        /\ bpc = [t \in Threads |-> IF t = MainThread THEN "done" ELSE "none"]
        /\ bexc = [t \in Threads |-> "none"]
        /\ bid = [t \in Threads |-> 0]
        /\ bsaved = NoSaved
        /\ tfinished = [t \in Timers |-> FALSE]
        /\ ncalls = 0
        /\ ntimers = 0
        /\ npc = [c \in Callers |-> "idle"]
        /\ nexc = [c \in Callers |-> "none"]
        /\ reader = ReaderIdle
        /\ chunking = NoCall
        /\ event = NoEvent
        /\ hist = [bursts |-> 0, overlap |-> FALSE, unserved |-> FALSE, failed |-> FALSE]

InitRetrieve == \E i \in 1..Len(RetrievalCorpora) : InitServing(RetrievalCorpora[i])

NextRetrieve ==
    \/ \E q \in Queries, k \in TopFolderArgs : RetrieveBegin(q, k)
    \/ \E e \in BOOLEAN : RetrieveEncode(e)
    \/ RetrieveStage1
    \/ RetrieveFolder
    \/ RetrieveResults
    \/ RetrieveReturn

SpecRetrieve == InitRetrieve /\ [][NextRetrieve]_vars

(***************************************************************************)
(* The scheduler from the moment a debounced build is running: the startup *)
(* build has published the snapshot of one folder, one call of             *)
(* debounced_rebuild has returned, its Timer has fired and its build has    *)
(* taken the lock and scanned the same files.  Every later call arrives     *)
(* while that build runs, or after it.                                      *)
(***************************************************************************)
FirstTimer == 1

InitMidBuild ==
    LET acc == AddFolders(EmptyAcc, AllStructures(Corpora[2]), 1)
    IN  /\ bscan = 2
        /\ heap = [b \in BuildIds |->
                     IF b = 1
                     THEN [chunks |-> acc.chunks, vecs |-> BuildVectors(acc.chunks),
                           meta |-> acc.meta, fi |-> acc.fi, stats |-> EmptyStats]
                     ELSE EmptyObj]
        /\ global_chunks = 1
        /\ global_index = 1
        /\ global_embed_model = 1
        /\ chunk_metadata = 1
        /\ folder_indices = 1
        /\ last_index_update = 1
        /\ index_stats = acc.stats
        /\ rebuild_lock = TRUE
        /\ rebuild_timer = FirstTimer
        /\ nbuilds = 2
        /\ bpc = [t \in Threads |->
                    IF t = MainThread THEN "done"
                    ELSE IF t = FirstTimer THEN "compute" ELSE "none"]
        /\ bexc = [t \in Threads |-> "none"]
        /\ bid = [t \in Threads |-> IF t = FirstTimer THEN 2 ELSE 0]
        /\ bsaved = [pub |-> Published, refs |-> PublishedRefs]
        /\ tfinished = [t \in Timers |-> FALSE]
        /\ ncalls = 1
        /\ ntimers = 1
        /\ npc = [c \in Callers |-> "idle"]
        /\ nexc = [c \in Callers |-> "none"]
        /\ reader = ReaderIdle
        /\ chunking = NoCall
        /\ event = NoEvent
        /\ hist = [bursts |-> 1, overlap |-> FALSE, unserved |-> FALSE, failed |-> FALSE]

NextMidBuild ==
    \/ \E t \in Threads, i \in 1..Len(Corpora) : BuildStart(t, i)
    \/ \E t \in Threads : BuildEmpty(t)
    \/ \E t \in Threads, o \in ChunkOutcomes : BuildChunk(t, o)
    \/ \E t \in Threads, o \in BuildOutcomes : BuildCompute(t, o)
    \/ \E t \in Threads : BuildPublish(t)
    \/ \E t \in Threads : BuildRelease(t)
    \/ \E t \in Threads : BuildReturn(t)
    \/ debounced_rebuild("watcher", MaxMidBuild + 1)
    \/ \E t \in Timers : TimerRun(t)

SpecMidBuild == InitMidBuild /\ [][NextMidBuild]_vars

(***************************************************************************)
(* chunk_text on its own: the function applied to one text.  The texts are  *)
(* a run of letters, a gap of spaces and a second run of letters, between   *)
(* leading and trailing spaces; the letter at a position depends on the     *)
(* position, so that equal fragments of text come from equal positions      *)
(* modulo the length of Letters.                                            *)
(***************************************************************************)
Letters == <<"a", "b", "c", "d", "e", "f", "g">>

Text(lead, run1, gap, run2, trail) ==
    [k \in 1..(lead + run1 + gap + run2 + trail) |->
        IF \/ k <= lead
           \/ k > lead + run1 /\ k <= lead + run1 + gap
           \/ k > lead + run1 + gap + run2
        THEN " "
        ELSE Letters[(k % Len(Letters)) + 1]]

Stride == CHUNK_SIZE - CHUNK_OVERLAP

Leads == {0, 3}
Runs1 == {0, 1, MIN_CHUNK_LEN - 1, MIN_CHUNK_LEN, MIN_CHUNK_LEN + 1,
          Stride - 2, Stride + 1, CHUNK_SIZE - 2, CHUNK_SIZE, CHUNK_SIZE + Stride}
Gaps == {0, 1, 4, CHUNK_SIZE + Stride}
Runs2 == {0, 1, MIN_CHUNK_LEN + 10, CHUNK_SIZE + CHUNK_OVERLAP + 10}
Trails == {0, 2}

Texts ==
    {Text(lead, run1, gap, run2, trail) :
        lead \in Leads, run1 \in Runs1, gap \in Gaps, run2 \in Runs2, trail \in Trails}

InitChunk ==
    /\ bscan = None
    /\ heap = [b \in BuildIds |-> EmptyObj]
    /\ global_chunks = 0
    /\ global_index = None
    /\ global_embed_model = None
    /\ chunk_metadata = 0
    /\ folder_indices = 0
    /\ last_index_update = None
    /\ index_stats = EmptyStats
    /\ rebuild_lock = FALSE
    /\ rebuild_timer = None
    /\ nbuilds = 0
    /\ bpc = [t \in Threads |-> "none"]
    /\ bexc = [t \in Threads |-> "none"]
    /\ bid = [t \in Threads |-> 0]
    /\ bsaved = NoSaved
    /\ tfinished = [t \in Timers |-> FALSE]
    /\ ncalls = 0
    /\ ntimers = 0
    /\ npc = [c \in Callers |-> "idle"]
    /\ nexc = [c \in Callers |-> "none"]
    /\ reader = ReaderIdle
    /\ chunking \in {[pc |-> "called", text |-> t, out |-> <<>>] : t \in Texts}
    /\ event = NoEvent
    /\ hist = [bursts |-> 0, overlap |-> FALSE, unserved |-> FALSE, failed |-> FALSE]

\* the call runs and returns
ChunkTextCall ==
    /\ chunking.pc = "called"
    /\ chunking' = [chunking EXCEPT !.pc = "returned", !.out = chunk_text(chunking.text)]
    /\ UNCHANGED event
    /\ UNCHANGED <<bscan, heap, globals, rebuild_lock, rebuild_timer, nbuilds, bpc, bexc,
                   bid, bsaved, tfinished, ncalls, ntimers, npc, nexc, reader, hist>>

NextChunk == ChunkTextCall

SpecChunk == InitChunk /\ [][NextChunk]_vars

(***************************************************************************)
(* DocsFolderHandler on the watchdog observer thread.  An event is         *)
(* [kind, is_directory, src_path]; the observer dispatches one event at a  *)
(* time to the method on_<kind> of the handler.  The class overrides       *)
(* on_created, on_modified and on_deleted; for every other kind the        *)
(* method inherited from FileSystemEventHandler runs, which does nothing.  *)
(***************************************************************************)
\* str.lower() over the letters the paths below are written with
lower(s) ==
    LET low == [c \in {"A", "C", "D", "T", "X"} |->
                  CASE c = "A" -> "a" [] c = "C" -> "c" [] c = "D" -> "d"
                    [] c = "T" -> "t" [] c = "X" -> "x"]
    IN  [k \in 1..Len(s) |-> IF s[k] \in DOMAIN low THEN low[s[k]] ELSE s[k]]

\* DocsFolderHandler._should_process
should_process(e) ==
    LET path == lower(e.src_path)
        endswith(ext) == /\ Len(path) >= Len(ext)
                         /\ SubSeq(path, Len(path) - Len(ext) + 1, Len(path)) = ext
    IN  IF e.is_directory
        THEN FALSE
        ELSE \E ext \in {<<".", "t", "x", "t">>, <<".", "p", "d", "f">>,
                         <<".", "d", "o", "c", "x">>} : endswith(ext)

\* the kinds of event for which DocsFolderHandler defines a method
Overridden == {"created", "modified", "deleted"}

\* the events the observer delivers
Events ==
    [kind : {"created", "modified", "deleted", "moved"},
     is_directory : BOOLEAN,
     src_path : {<<"a", ".", "t", "x", "t">>, <<"A", ".", "T", "X", "T">>,
                 <<"b", ".", "p", "d", "f">>, <<"c", ".", "D", "o", "c", "x">>,
                 <<"n", ".", "m", "d">>, <<"t", "x", "t">>,
                 <<"a", ".", "t", "x", "t", ".", "b", "a", "k">>}]

\* the observer thread dispatches event e: on_<kind> runs and, when
\* _should_process accepts the event, begins its call of debounced_rebuild
Dispatch(e) ==
    /\ Serving
    /\ npc["watcher"] = "idle"
    /\ event' = e
    /\ IF e.kind \in Overridden /\ should_process(e)
       THEN DebounceStep("watcher", MaxNotify)
       ELSE UNCHANGED <<bscan, heap, globals, rebuild_lock, rebuild_timer, nbuilds, bpc,
                        bexc, bid, bsaved, tfinished, ncalls, ntimers, npc, nexc,
                        reader, chunking, hist>>

\* the scheduler with the observer thread as its only caller
NextWatch ==
    \/ \E t \in Threads, i \in 1..Len(Corpora) : BuildStart(t, i)
    \/ \E t \in Threads : BuildEmpty(t)
    \/ \E t \in Threads, o \in ChunkOutcomes : BuildChunk(t, o)
    \/ \E t \in Threads, o \in BuildOutcomes : BuildCompute(t, o)
    \/ \E t \in Threads : BuildPublish(t)
    \/ \E t \in Threads : BuildRelease(t)
    \/ \E t \in Threads : BuildReturn(t)
    \/ \E e \in Events : Dispatch(e)
    \/ NotifyContinue("watcher")
    \/ \E t \in Timers : TimerRun(t)

SpecWatch == Init /\ [][NextWatch]_vars

(***************************************************************************)
(* Properties.                                                             *)
(***************************************************************************)
\* thread t is inside the body of rebuild_index (it holds the lock)
InBody(t) ==
    bpc[t] \in {"compute", "chunked", "release",
                "empty1", "empty2", "empty3", "empty4", "empty5", "empty6",
                "pub1", "pub2", "pub3", "pub4", "pub5", "pub6", "pub7"}

\* what a build of the file system Corpora[i] publishes
SnapshotOfCorpus(i) ==
    LET acc == AddFolders(EmptyAcc, AllStructures(Corpora[i]), 0)
    IN  [chunks |-> acc.chunks, meta |-> acc.meta, vecs |-> BuildVectors(acc.chunks)]

\* result r of a query is position g of snapshot s: text, folder, filename
\* and score all taken there
FromSnapshot(r, s, query) ==
    \E g \in 1..Len(s.chunks) :
        r = [chunk |-> s.chunks[g], folder |-> s.meta[g].folder,
             filename |-> s.meta[g].filename,
             score |-> Dot(s.vecs[g], Embed(query))]

\* C1: the results a retrieve_hierarchical call returns are consistent with
\* one single snapshot: there is one snapshot from which the chunk text, the
\* folder, the filename and the score of every result are taken, also when a
\* build publishes during the call.
C1_SingleSnapshotResults ==
    reader.pc = "done" =>
        \E i \in 1..Len(Corpora) :
            \A k \in 1..Len(reader.results) :
                FromSnapshot(reader.results[k], SnapshotOfCorpus(i), reader.query)

\* C2: at most one thread is executing the body of rebuild_index, whatever
\* the interleaving of the startup build, the Timer expiries and the calls of
\* debounced_rebuild from the watcher and from the upload handler.
C2_OneBuildAtATime == Cardinality({t \in Threads : InBody(t)}) <= 1

\* C2, its case: a Timer has expired while another thread is building
C2_SecondBuildWaits ==
    \E t \in Threads, u \in Timers : t # u /\ InBody(t) /\ bpc[u] = "start"

\* every call of debounced_rebuild has returned, every Timer has ended
Quiescent ==
    /\ Serving
    /\ \A c \in Callers : npc[c] = "idle"
    /\ \A t \in Timers : bpc[t] \in {"none", "done"}

\* C3: calls of debounced_rebuild issued one after another trigger exactly
\* one build per burst, a burst being the calls that each cancel a Timer
\* whose window is still open: calls all within the window trigger one build,
\* a call, the end of the window and one more call trigger two.
C3_OneBuildPerBurst ==
    Quiescent /\ ~hist.overlap => nbuilds - 1 = hist.bursts

\* C3, its case: every call allowed was issued, all in one burst
C3_BurstOfCalls ==
    Quiescent /\ ~hist.overlap /\ ncalls = MaxNotify /\ hist.bursts = 1

\* C4: every call of debounced_rebuild is eventually followed by a build
\* that starts scanning after the call was issued, also when the call comes
\* while another build is running.
C4_NotifyServed == hist.unserved ~> ~hist.unserved

\* C4, its case: a call was issued while a build is running, and no build
\* has started since
C4_NotifyDuringBuild == hist.unserved /\ \E t \in Threads : InBody(t)

\* C5: when a build fails with IndexBuildError, every published field
\* (chunk list, vector index, embedding model, chunk metadata, folder
\* mapping, statistics, last-update time) is as the build found it, the
\* same objects with the same content.
C5_FailedBuildChangesNothing ==
    \A t \in Threads :
        bpc[t] = "release" /\ bexc[t] = "IndexBuildError" =>
            Published = bsaved.pub /\ PublishedRefs = bsaved.refs

\* C5, its case: a build has failed over a published, non-empty snapshot
C5_FailedOverSnapshot ==
    \E t \in Threads :
        /\ bpc[t] = "release"
        /\ bexc[t] = "IndexBuildError"
        /\ bsaved.pub.chunks # <<>>

\* C6: a retrieval issued while a build is in progress returns what the
\* previously published snapshot gives with no build running, and no error.
C6_ServedFromPrevious ==
    reader.pc = "done" /\ reader.during /\ ~reader.embed_failed =>
        /\ reader.out = "returned"
        /\ reader.results = RetrieveOn(reader.first, reader.query,
                                       reader.top_k_folders, reader.top_k_chunks)

\* C7: retrieve_hierarchical never raises to its caller: a call that hits a
\* failure of the query embedding or of a later step, a snapshot replaced
\* under it included, and a call that finds no index or no model, return [].
C7_NeverRaises ==
    /\ reader.out # "raised"
    /\ reader.pc = "done" /\ reader.out = "caught" => reader.results = <<>>
    /\ reader.pc = "done" /\ ~reader.during /\ reader.first.index = <<>> =>
           reader.out = "returned" /\ reader.results = <<>>

\* C7, its case: a step failed inside the call although the query was encoded
C7_FailureInsideCall ==
    reader.pc = "done" /\ reader.out = "caught" /\ ~reader.embed_failed

\* C8: a failure of a build run by a Timer stays inside the scheduler: the
\* Timer's thread ends normally, the lock is free again once the build is
\* left, the snapshot is the one the build found, and a call of
\* debounced_rebuild issued after the failure is followed by a new build.
C8_FailureStaysInside ==
    /\ [](\A t \in Timers :
            /\ bpc[t] # "crashed"
            /\ bpc[t] = "release" /\ bexc[t] # "none" =>
                   SnapshotOf(Published) = SnapshotOf(bsaved.pub)
            /\ bpc[t] = "after" /\ bexc[t] # "none" =>
                   (rebuild_lock => \E u \in Threads \ {t} : InBody(u)))
    /\ (hist.failed /\ hist.unserved ~> ~hist.unserved)

\* C8, its case: a scheduled build has failed and a call was issued since
C8_NotifyAfterFailure == hist.failed /\ hist.unserved

\* C9: a build that finds no document ends without raising and leaves the
\* empty snapshot published (no index, no model, no chunks, no metadata,
\* empty folder mapping, zeroed statistics), whatever was published before;
\* a retrieval against the empty snapshot returns [].
C9_EmptyBuildPublishesEmpty ==
    /\ [][\A t \in Threads :
            bpc[t] = "empty6" /\ bpc'[t] = "release" =>
                /\ SnapshotOf(Published)' = EmptySnapshot
                /\ global_embed_model' = None
                /\ index_stats' = EmptyStats
                /\ bexc'[t] = "none"]_vars
    /\ [](reader.pc = "done" /\ ~reader.during /\ reader.first = EmptySnapshot =>
              reader.out = "returned" /\ reader.results = <<>>)

\* C9, its case: a retrieval has run against the empty snapshot that an
\* empty build left after a non-empty snapshot had been published
C9_RetrievedFromEmptied ==
    /\ reader.pc = "done"
    /\ ~reader.during
    /\ reader.first = EmptySnapshot
    /\ last_index_update # None

\* C10: in every state in which requests are served (a reader can observe
\* the globals) the published chunk list, chunk-metadata list and vector
\* index have the same length, and the vector at position i is the vector of
\* chunk i.
C10_ListsAligned ==
    Serving =>
        LET p == Published
            vecs == IF p.index = <<>> THEN <<>> ELSE p.index[1]
        IN  /\ Len(p.chunks) = Len(p.meta)
            /\ Len(p.chunks) = Len(vecs)
            /\ \A i \in 1..Len(p.chunks) : vecs[i] = Embed(p.chunks[i])

\* the folder mapping of object o is well-formed: every position is valid
\* and its metadata names the folder, every chunk position is in the list of
\* exactly one folder, once, and no list is empty
WellFormedMapping(o) ==
    /\ \A k \in 1..Len(o.fi) :
          /\ o.fi[k].idxs # <<>>
          /\ \A j \in 1..Len(o.fi[k].idxs) :
                /\ o.fi[k].idxs[j] \in 0..(Len(o.chunks) - 1)
                /\ o.meta[o.fi[k].idxs[j] + 1].folder = o.fi[k].folder
    /\ \A k, l \in 1..Len(o.fi) : o.fi[k].folder = o.fi[l].folder => k = l
    /\ \A g \in 0..(Len(o.chunks) - 1) :
          Cardinality({<<k, j>> \in (1..Len(o.fi)) \X (1..Len(o.chunks)) :
                          j <= Len(o.fi[k].idxs) /\ o.fi[k].idxs[j] = g}) = 1

\* thread t has built a snapshot and is publishing it
Publishing(t) ==
    bpc[t] \in {"pub1", "pub2", "pub3", "pub4", "pub5", "pub6", "pub7"}

\* C11: in every snapshot a successful build produces the folder mapping is
\* well-formed: every position listed under a folder is a valid index into
\* the chunk list whose metadata names that folder, every chunk position is
\* listed under exactly one folder, and no folder has an empty list.
C11_FolderMappingWellFormed ==
    \A t \in Threads : Publishing(t) => WellFormedMapping(heap[WorkArea(t)])

\* C11, its case: a build over two folders of the same name under the two
\* roots, and a folder whose only file was rejected, is publishing
C11_TwoFoldersBuilt ==
    \E t \in Threads :
        /\ bpc[t] = "pub1"
        /\ Len(heap[WorkArea(t)].fi) = 2
        /\ Len(heap[WorkArea(t)].chunks) = 2

\* C12: a published object (chunk list, chunk-metadata list, folder mapping,
\* vector index) is never modified in place: as long as a global designates
\* the same object, the content of that object stays what it was.
C12_NoInPlaceModification ==
    [][/\ global_chunks' = global_chunks =>
              heap'[global_chunks].chunks = heap[global_chunks].chunks
       /\ global_index' = global_index /\ global_index # None =>
              heap'[global_index].vecs = heap[global_index].vecs
       /\ chunk_metadata' = chunk_metadata =>
              heap'[chunk_metadata].meta = heap[chunk_metadata].meta
       /\ folder_indices' = folder_indices =>
              heap'[folder_indices].fi = heap[folder_indices].fi]_vars

\* the similarities stage 1 looks at for folder number f of the served
\* mapping: those of its first FOLDER_SCAN_CAP chunks
ScannedSims(f, q_vec) ==
    LET idxs == heap[folder_indices].fi[f].idxs
    IN  {Dot(heap[global_index].vecs[idxs[j] + 1], q_vec) :
            j \in 1..Min(FOLDER_SCAN_CAP, Len(idxs))}

\* folder g has a strictly higher folder score than folder f
StrictlyCloser(g, f, q_vec) ==
    \E s \in ScannedSims(g, q_vec) : \A t \in ScannedSims(f, q_vec) : s > t

\* result r is a chunk of folder number f
ChunkOfFolder(r, f) ==
    LET entry == heap[folder_indices].fi[f]
    IN  /\ entry.folder = r.folder
        /\ \E j \in 1..Len(entry.idxs) :
               heap[global_chunks].chunks[entry.idxs[j] + 1] = r.chunk

\* C13: every chunk a call returns is a chunk of a folder than which fewer
\* than the requested number of folders have a strictly higher folder score,
\* the folder score being the highest similarity among the folder's first
\* FOLDER_SCAN_CAP chunks; so with one folder requested, no chunk comes from a
\* folder that another folder is strictly closer than.
C13_OnlyTopFolders ==
    reader.pc = "done" /\ reader.out = "returned" =>
        \A k \in 1..Len(reader.results) :
            \E f \in 1..Len(heap[folder_indices].fi) :
                /\ ChunkOfFolder(reader.results[k], f)
                /\ Cardinality({g \in 1..Len(heap[folder_indices].fi) :
                                   StrictlyCloser(g, f, Embed(reader.query))})
                       < reader.top_k_folders

\* one folder requested; the folder of more than FOLDER_SCAN_CAP chunks holds,
\* past the cap, the chunk closest to the query, and only the chunks of the
\* other folder, strictly closer by folder score, are returned
C13_CappedFolderLoses ==
    /\ reader.pc = "done" /\ reader.out = "returned"
    /\ reader.top_k_folders = 1
    /\ reader.results # <<>>
    /\ \E f, g \in 1..Len(heap[folder_indices].fi) :
           /\ Len(heap[folder_indices].fi[f].idxs) > FOLDER_SCAN_CAP
           /\ StrictlyCloser(g, f, Embed(reader.query))
           /\ \A k \in 1..Len(reader.results) : ChunkOfFolder(reader.results[k], g)
           /\ \E j \in 1..Len(heap[folder_indices].fi[f].idxs) :
                  \A t \in ScannedSims(g, Embed(reader.query)) :
                      Dot(heap[global_index].vecs[heap[folder_indices].fi[f].idxs[j] + 1],
                          Embed(reader.query)) > t

\* the folder score of folder number f: np.max over the scanned similarities
FolderScore(f, q_vec) ==
    CHOOSE s \in ScannedSims(f, q_vec) : \A t \in ScannedSims(f, q_vec) : s >= t

\* folder number f is among the first top_k_folders of the descending stable
\* sort of the folder scores
SelectedFolder(f, q_vec, top_k_folders) ==
    Cardinality({g \in 1..Len(heap[folder_indices].fi) :
                    \/ FolderScore(g, q_vec) > FolderScore(f, q_vec)
                    \/ FolderScore(g, q_vec) = FolderScore(f, q_vec) /\ g < f})
        < top_k_folders

\* the text and the similarity of the chunk at place j of folder number f
FolderChunk(f, j) == heap[global_chunks].chunks[heap[folder_indices].fi[f].idxs[j] + 1]
FolderSim(f, j, q_vec) ==
    Dot(heap[global_index].vecs[heap[folder_indices].fi[f].idxs[j] + 1], q_vec)

\* the returned results that come from folder number f, in the order returned
SameFolder(f, r) == r.folder = heap[folder_indices].fi[f].folder
ResultsFrom(f) == SelectSeq(reader.results, LAMBDA r : SameFolder(f, r))

\* rs are exactly n chunks of folder number f, by descending score, and no
\* chunk of the folder left out has a higher similarity than one of them
HighestOfFolder(rs, f, q_vec, n) ==
    /\ Len(rs) = n
    /\ \A i \in 1..(Len(rs) - 1) : rs[i].score >= rs[i + 1].score
    /\ \A i \in 1..Len(rs) :
           \E j \in 1..Len(heap[folder_indices].fi[f].idxs) :
               FolderChunk(f, j) = rs[i].chunk /\ FolderSim(f, j, q_vec) = rs[i].score
    /\ \A j \in 1..Len(heap[folder_indices].fi[f].idxs) :
           (\A i \in 1..Len(rs) : rs[i].chunk # FolderChunk(f, j)) =>
               \A i \in 1..Len(rs) : FolderSim(f, j, q_vec) <= rs[i].score

\* no chunk of folder number f has the text of another chunk of that folder or
\* of another selected folder
TextsDistinct(f, q_vec, top_k_folders) ==
    \A j \in 1..Len(heap[folder_indices].fi[f].idxs) :
        \A g \in 1..Len(heap[folder_indices].fi) :
            g = f \/ SelectedFolder(g, q_vec, top_k_folders) =>
                \A i \in 1..Len(heap[folder_indices].fi[g].idxs) :
                    (g # f \/ i # j) => FolderChunk(g, i) # FolderChunk(f, j)

\* C14 as stated: from every selected folder of at least top_k_chunks chunks
\* a call returns exactly top_k_chunks results, the chunks of the folder with
\* the highest similarity, by descending score.
C14_ExactlyTopChunks ==
    reader.pc = "done" /\ reader.out = "returned" =>
        \A f \in 1..Len(heap[folder_indices].fi) :
            /\ SelectedFolder(f, Embed(reader.query), reader.top_k_folders)
            /\ Len(heap[folder_indices].fi[f].idxs) >= reader.top_k_chunks
            => HighestOfFolder(ResultsFrom(f), f, Embed(reader.query), reader.top_k_chunks)

\* C14, amended: from every selected folder of at least top_k_chunks chunks,
\* none of which has the text of another chunk of that folder or of another
\* selected folder, a call returns exactly top_k_chunks results, the chunks of
\* the folder with the highest similarity, by descending score.
C14_TopChunksOfDistinctTexts ==
    reader.pc = "done" /\ reader.out = "returned" =>
        \A f \in 1..Len(heap[folder_indices].fi) :
            /\ SelectedFolder(f, Embed(reader.query), reader.top_k_folders)
            /\ Len(heap[folder_indices].fi[f].idxs) >= reader.top_k_chunks
            /\ TextsDistinct(f, Embed(reader.query), reader.top_k_folders)
            => HighestOfFolder(ResultsFrom(f), f, Embed(reader.query), reader.top_k_chunks)

\* the chunks of one selected folder are returned and a chunk of the next
\* selected folder, among its top_k_chunks highest, has the text of one of
\* them; within each of the two folders the texts are distinct
C14_DuplicateAcrossFolders ==
    /\ reader.pc = "done" /\ reader.out = "returned"
    /\ \E f, g \in 1..Len(heap[folder_indices].fi) :
           /\ f # g
           /\ SelectedFolder(f, Embed(reader.query), reader.top_k_folders)
           /\ SelectedFolder(g, Embed(reader.query), reader.top_k_folders)
           /\ TextsDistinct(f, Embed(reader.query), 0)
           /\ TextsDistinct(g, Embed(reader.query), 0)
           /\ Len(heap[folder_indices].fi[g].idxs) >= reader.top_k_chunks
           /\ Len(ResultsFrom(f)) = reader.top_k_chunks
           /\ Len(ResultsFrom(g)) < reader.top_k_chunks

\* three results from a selected folder of five chunks with distinct texts
C14_ThreeOfFive ==
    /\ reader.pc = "done" /\ reader.out = "returned"
    /\ \E f \in 1..Len(heap[folder_indices].fi) :
           /\ SelectedFolder(f, Embed(reader.query), reader.top_k_folders)
           /\ Len(heap[folder_indices].fi[f].idxs) = 5
           /\ TextsDistinct(f, Embed(reader.query), reader.top_k_folders)
           /\ Len(ResultsFrom(f)) = 3

\* empty or whitespace-only
Blank(text) == \A k \in 1..Len(text) : IsSpace(text[k])

\* a text that is not blank, from its first to its last non-whitespace character
Trimmed(text) ==
    LET inked == {k \in 1..Len(text) : ~IsSpace(text[k])}
        first == CHOOSE k \in inked : \A j \in 1..(k - 1) : IsSpace(text[j])
        last == CHOOSE k \in inked : \A j \in (k + 1)..Len(text) : IsSpace(text[j])
    IN  SubSeq(text, first, last)

\* C15: chunk_text returns the empty sequence exactly when its argument is
\* empty or whitespace-only; a text with a non-whitespace character yields at
\* least one fragment.
C15_EmptyIffBlank ==
    chunking.pc = "returned" => (chunking.out = <<>> <=> Blank(chunking.text))

\* a text longer than CHUNK_SIZE of which every slice is dropped, returned whole
C15_LongTextOfShortRuns ==
    /\ chunking.pc = "returned"
    /\ Len(chunking.text) > CHUNK_SIZE
    /\ ~Blank(chunking.text)
    /\ chunking.out = <<Trimmed(chunking.text)>>
    /\ Len(Trimmed(chunking.text)) > CHUNK_SIZE

\* C16 as stated: a non-empty text of at most MIN_CHUNK_LEN characters is
\* returned as exactly one fragment, the trimmed text.
C16_ShortTextOneFragment ==
    /\ chunking.pc = "returned"
    /\ chunking.text # <<>>
    /\ Len(chunking.text) <= MIN_CHUNK_LEN
    => /\ Len(chunking.out) = 1
       /\ ~Blank(chunking.text)
       /\ chunking.out[1] = Trimmed(chunking.text)

\* C16, amended: a text of at most MIN_CHUNK_LEN characters with at least one
\* non-whitespace character is returned as exactly one fragment, the trimmed
\* text.
C16_ShortInkedTextOneFragment ==
    /\ chunking.pc = "returned"
    /\ ~Blank(chunking.text)
    /\ Len(chunking.text) <= MIN_CHUNK_LEN
    => chunking.out = <<Trimmed(chunking.text)>>

\* a text of MIN_CHUNK_LEN characters, whitespace included, returned trimmed
C16_ShortTextTrimmed ==
    /\ chunking.pc = "returned"
    /\ Len(chunking.text) = MIN_CHUNK_LEN
    /\ Len(chunking.out) = 1
    /\ Len(chunking.out[1]) < MIN_CHUNK_LEN
    /\ chunking.out[1] = Trimmed(chunking.text)

\* the last CHUNK_OVERLAP characters of fragment k are the first
\* CHUNK_OVERLAP characters of fragment k + 1
Overlaps(out, k) ==
    /\ Len(out[k]) >= CHUNK_OVERLAP
    /\ Len(out[k + 1]) >= CHUNK_OVERLAP
    /\ SubSeq(out[k], Len(out[k]) - CHUNK_OVERLAP + 1, Len(out[k]))
          = SubSeq(out[k + 1], 1, CHUNK_OVERLAP)

\* no slice of the trimmed text begins or ends with a whitespace character
CleanSlices(text) ==
    LET t == Trimmed(text)
    IN  \A i \in 0..(Len(t) - 1) :
            i % (CHUNK_SIZE - CHUNK_OVERLAP) = 0 =>
                /\ ~IsSpace(t[i + 1])
                /\ ~IsSpace(t[Min(i + CHUNK_SIZE, Len(t))])

\* C17 as stated: of a text longer than CHUNK_SIZE, every fragment returned
\* but the last overlaps the fragment before it by CHUNK_OVERLAP characters.
C17_ConsecutiveOverlap ==
    chunking.pc = "returned" /\ Len(chunking.text) > CHUNK_SIZE =>
        \A k \in 1..(Len(chunking.out) - 2) : Overlaps(chunking.out, k)

\* C17, amended: of a text longer than CHUNK_SIZE in whose trimmed form no
\* slice begins or ends with a whitespace character, each two consecutive
\* fragments returned overlap by CHUNK_OVERLAP characters.
C17_OverlapOfCleanSlices ==
    /\ chunking.pc = "returned"
    /\ Len(chunking.text) > CHUNK_SIZE
    /\ ~Blank(chunking.text)
    /\ CleanSlices(chunking.text)
    => \A k \in 1..(Len(chunking.out) - 1) : Overlaps(chunking.out, k)

\* four fragments of a text with whitespace inside its slices only
C17_FourFragments ==
    /\ chunking.pc = "returned"
    /\ ~Blank(chunking.text)
    /\ CleanSlices(chunking.text)
    /\ LET t == Trimmed(chunking.text) IN \E k \in 1..Len(t) : IsSpace(t[k])
    /\ Len(chunking.out) = 4

\* the chunking loop of the build run by thread t is over and kept no chunk
NoChunkRetained(t) == bpc[t] = "chunked" /\ heap[WorkArea(t)].chunks = <<>>

\* C18: a build whose scan found documents and whose chunking loop kept no
\* chunk goes on to raise IndexBuildError and nothing else; from the end of
\* the loop on, the published snapshot stays what it was.
C18_NoChunksFailsBuild ==
    [][\A t \in Threads :
          NoChunkRetained(t) =>
              /\ bpc'[t] \in {"chunked", "release"}
              /\ bpc'[t] = "release" => bexc'[t] = "IndexBuildError"
              /\ Published' = Published
              /\ PublishedRefs' = PublishedRefs]_vars

\* documents were found in two folders, no chunk was kept, and a snapshot
\* with chunks is being served
C18_NoChunkOverSnapshot ==
    \E t \in Threads :
        /\ NoChunkRetained(t)
        /\ Len(heap[WorkArea(t)].stats.folders) = 2
        /\ Serving
        /\ Published.chunks # <<>>

\* the state the scheduler is followed from is one the service reaches
MidBuildReached == InitMidBuild

\* the window of Timer t has ended without a cancel(): its thread is about
\* to run a build, or waits for the lock to do so
Fired(t) == bpc[t] = "start"

\* C19: the calls of debounced_rebuild that arrive while one build runs lead
\* to one follow-up build: while the build of the first Timer runs, at most
\* one of the Timers created since it started has fired.
C19_OneFollowUpBuild ==
    InBody(FirstTimer) => Cardinality({t \in Timers \ {FirstTimer} : Fired(t)}) <= 1

\* the window of the latest Timer created has ended: a full window has
\* passed since the call of debounced_rebuild that created it
QuietWindowPassed ==
    /\ rebuild_timer # None
    /\ bpc[rebuild_timer] \notin {"created", "waiting"}

\* the build of the first Timer runs, a Timer created since has fired and
\* waits for the lock, and the window of a Timer created after that is open
C20_FiredBehindOpenWindow ==
    /\ InBody(FirstTimer)
    /\ \A c \in Callers : npc[c] = "idle"
    /\ \E t \in Timers \ {FirstTimer} : Fired(t) /\ t # rebuild_timer
    /\ WindowOpen(rebuild_timer)

\* C20: a build run by a Timer starts scanning only when a full window has
\* passed since the most recent call of debounced_rebuild that has created
\* its Timer.
C20_StartsAfterQuietWindow ==
    [][\A t \in Timers :
          bpc[t] = "start" /\ bpc'[t] # "start" => QuietWindowPassed]_vars

\* C21: when two threads run debounced_rebuild concurrently, at most one
\* Timer has its window open at any moment, whatever the interleaving of
\* their statements.
C21_OnePendingTimer ==
    Cardinality({t \in Timers : WindowOpen(t)}) <= 1

\* C22: an event dispatched by the observer begins a call of
\* debounced_rebuild exactly when it is a created, modified, deleted or
\* moved event, not for a directory, whose path ends in .txt, .pdf or .docx
\* whatever the case of its letters.
C22_DocumentEventsNotify ==
    [][event' # event =>
         LET e == event'
             ext == IF "." \in {e.src_path[k] : k \in 1..Len(e.src_path)}
                    THEN LET dot == CHOOSE k \in 1..Len(e.src_path) :
                                      /\ e.src_path[k] = "."
                                      /\ \A j \in (k + 1)..Len(e.src_path) :
                                            e.src_path[j] # "."
                         IN  lower(SubSeq(e.src_path, dot + 1, Len(e.src_path)))
                    ELSE <<>>
         IN  (ncalls' = ncalls + 1) <=>
                /\ ~e.is_directory
                /\ ext \in {<<"t", "x", "t">>, <<"p", "d", "f">>, <<"d", "o", "c", "x">>}
    ]_vars

\* C23: among the chunks of one folder with equal similarity to the query,
\* the one earlier in the folder's chunk order is returned first, and when
\* the cut at top_k_chunks falls between two of them the earlier one is the
\* one returned (folders whose chunks have distinct texts, so that no result
\* is skipped as a duplicate).
C23_TiesInChunkOrder ==
    reader.pc = "done" /\ reader.out = "returned" =>
        \A f \in 1..Len(heap[folder_indices].fi) :
            TextsDistinct(f, Embed(reader.query), reader.top_k_folders) =>
                LET rs == ResultsFrom(f)
                    places == 1..Len(heap[folder_indices].fi[f].idxs)
                    place(r) == CHOOSE j \in places : FolderChunk(f, j) = r.chunk
                IN  /\ \A i, k \in 1..Len(rs) :
                           i < k /\ rs[i].score = rs[k].score =>
                               place(rs[i]) < place(rs[k])
                    /\ \A j \in places, i \in 1..Len(rs) :
                           /\ \A k \in 1..Len(rs) : rs[k].chunk # FolderChunk(f, j)
                           /\ rs[i].score = FolderSim(f, j, Embed(reader.query))
                           => place(rs[i]) < j

\* the number of folders ranked before folder number f by the descending
\* stable sort of the folder scores
FolderRank(f, q_vec) ==
    Cardinality({g \in 1..Len(heap[folder_indices].fi) :
                    \/ FolderScore(g, q_vec) > FolderScore(f, q_vec)
                    \/ FolderScore(g, q_vec) = FolderScore(f, q_vec) /\ g < f})

\* the chunk at place j of folder number f can be among the top_k_chunks
\* taken from that folder: fewer than top_k_chunks others are strictly closer
Selectable(f, j, q_vec, top_k_chunks) ==
    Cardinality({i \in 1..Len(heap[folder_indices].fi[f].idxs) :
                    FolderSim(f, i, q_vec) > FolderSim(f, j, q_vec)}) < top_k_chunks

\* C24: no two results of a call have the same chunk text; a result carries
\* the folder, filename and score of an occurrence of its text in the
\* highest-ranked selected folder from which that text is taken; and the
\* results stay in the order of selection, by folder rank and within a
\* folder by descending score.
C24_FirstOccurrenceWins ==
    reader.pc = "done" /\ reader.out = "returned" =>
        LET q == Embed(reader.query)
            rs == reader.results
            folders == 1..Len(heap[folder_indices].fi)
            of(r) == CHOOSE f \in folders : SameFolder(f, r)
        IN  /\ \A i, k \in 1..Len(rs) : i # k => rs[i].chunk # rs[k].chunk
            /\ \A i \in 1..Len(rs) :
                   /\ \E f \in folders : SameFolder(f, rs[i])
                   /\ SelectedFolder(of(rs[i]), q, reader.top_k_folders)
                   /\ \E j \in 1..Len(heap[folder_indices].fi[of(rs[i])].idxs) :
                          /\ FolderChunk(of(rs[i]), j) = rs[i].chunk
                          /\ FolderSim(of(rs[i]), j, q) = rs[i].score
                          /\ heap[chunk_metadata].meta[
                                 heap[folder_indices].fi[of(rs[i])].idxs[j] + 1].filename
                                 = rs[i].filename
                   /\ \A g \in folders :
                          FolderRank(g, q) < FolderRank(of(rs[i]), q) =>
                              \A j \in 1..Len(heap[folder_indices].fi[g].idxs) :
                                  FolderChunk(g, j) = rs[i].chunk =>
                                      ~Selectable(g, j, q, reader.top_k_chunks)
            /\ \A i, k \in 1..Len(rs) :
                   i < k =>
                       \/ FolderRank(of(rs[i]), q) < FolderRank(of(rs[k]), q)
                       \/ of(rs[i]) = of(rs[k]) /\ rs[i].score >= rs[k].score

\* a text is among the closest chunks of two selected folders; the call has
\* returned it once, from the higher-ranked folder, with other results of
\* the lower-ranked folder after it
C24_KeptFromHigherRanked ==
    /\ reader.pc = "done" /\ reader.out = "returned"
    /\ \E f, g \in 1..Len(heap[folder_indices].fi) :
           /\ FolderRank(f, Embed(reader.query)) < FolderRank(g, Embed(reader.query))
           /\ SelectedFolder(g, Embed(reader.query), reader.top_k_folders)
           /\ \E i \in 1..Len(heap[folder_indices].fi[f].idxs),
                 j \in 1..Len(heap[folder_indices].fi[g].idxs) :
                  /\ FolderChunk(f, i) = FolderChunk(g, j)
                  /\ Len(heap[folder_indices].fi[f].idxs) <= reader.top_k_chunks
                  /\ Len(heap[folder_indices].fi[g].idxs) <= reader.top_k_chunks
                  /\ \E k \in 1..Len(reader.results) :
                         /\ reader.results[k].chunk = FolderChunk(f, i)
                         /\ SameFolder(f, reader.results[k])
           /\ ResultsFrom(g) # <<>>

\* file system b is file system a after files were added and folders
\* created: every root, folder and file of a is in b, unchanged
Grows(a, b) ==
    \A base \in {DEFAULT_DOCS_FOLDER, UPLOAD_FOLDER} :
        LET ra == RootOf(a, base)
            rb == RootOf(b, base)
        IN  /\ ra.exists => rb.exists
            /\ \A k \in 1..Len(ra.flat) : \E m \in 1..Len(rb.flat) : rb.flat[m] = ra.flat[k]
            /\ \A k \in 1..Len(ra.subs) :
                   \E m \in 1..Len(rb.subs) :
                       /\ rb.subs[m].name = ra.subs[k].name
                       /\ \A x \in 1..Len(ra.subs[k].files) :
                              \E y \in 1..Len(rb.subs[m].files) :
                                  rb.subs[m].files[y] = ra.subs[k].files[x]

\* the documents of a snapshot: folder key, filename and text of each chunk
DocsOf(pub) ==
    {<<pub.meta[g].folder, pub.meta[g].filename, pub.chunks[g]>> : g \in 1..Len(pub.chunks)}

Fragments(text) ==
    LET t == Trimmed(text)
        n == (Len(t) + Stride - 1) \div Stride
    IN  [k \in 1..n |-> Strip(Slice(t, (k - 1) * Stride, (k - 1) * Stride + CHUNK_SIZE))]

\* C26: chunk_text returns, in order, the fragments whose trimmed length is
\* at least MIN_CHUNK_LEN, a fragment of exactly that length included, and
\* the whole trimmed text when no fragment is that long.
C26_DropsExactlyTheShort ==
    chunking.pc = "returned" /\ ~Blank(chunking.text) =>
        LET kept == SelectSeq(Fragments(chunking.text),
                              LAMBDA c : Len(c) >= MIN_CHUNK_LEN)
        IN  chunking.out = IF kept # <<>> THEN kept ELSE <<Trimmed(chunking.text)>>

\* C27: every fragment chunk_text returns is a run of consecutive characters
\* of the trimmed text and is at most CHUNK_SIZE characters long, also when
\* the whole trimmed text is returned because no fragment was kept.
C27_BoundedSubstrings ==
    chunking.pc = "returned" /\ ~Blank(chunking.text) =>
        LET t == Trimmed(chunking.text)
        IN  \A k \in 1..Len(chunking.out) :
                /\ Len(chunking.out[k]) <= CHUNK_SIZE
                /\ \E i \in 1..Len(t) :
                       /\ i + Len(chunking.out[k]) - 1 <= Len(t)
                       /\ SubSeq(t, i, i + Len(chunking.out[k]) - 1) = chunking.out[k]

\* the positions of trimmed text t that fragment k covers: those of slice k
\* from its first to its last non-whitespace character
Extent(t, k) ==
    LET start == (k - 1) * Stride
        slice == Slice(t, start, start + CHUNK_SIZE)
    IN  (start + (Len(slice) - Len(LStrip(slice))) + 1)..(start + Len(RStrip(slice)))

\* the positions of the trimmed text inside a returned fragment
Covered(text, out) ==
    LET t == Trimmed(text)
        fragments == Fragments(text)
    IN  IF out = <<t>> THEN 1..Len(t)
        ELSE UNION {Extent(t, k) : k \in {j \in 1..Len(fragments) :
                                             \E m \in 1..Len(out) : out[m] = fragments[j]}}

\* C28 as stated: every character of the trimmed text lies inside at least
\* one returned fragment.
C28_NoContentLost ==
    chunking.pc = "returned" /\ ~Blank(chunking.text) =>
        \A p \in 1..Len(Trimmed(chunking.text)) : p \in Covered(chunking.text, chunking.out)

\* C28, amended: every character of the trimmed text lies inside at least
\* one returned fragment, except, when some fragment is longer than
\* MIN_CHUNK_LEN, the characters that lie in no such fragment: whitespace
\* trimmed off its slices and characters of slices that trim to
\* MIN_CHUNK_LEN characters or fewer.
C28_LostOnlyWithShortSlices ==
    chunking.pc = "returned" /\ ~Blank(chunking.text) =>
        LET t == Trimmed(chunking.text)
            fragments == Fragments(chunking.text)
            long == {k \in 1..Len(fragments) : Len(fragments[k]) > MIN_CHUNK_LEN}
            covered == Covered(chunking.text, chunking.out)
        IN  IF long = {} THEN covered = 1..Len(t)
            ELSE \A k \in long : Extent(t, k) \subseteq covered

\* letters lost: a run of fewer than MIN_CHUNK_LEN letters, far from the
\* rest of the text, is in no returned fragment while later fragments are
C28_ShortRunLost ==
    /\ chunking.pc = "returned"
    /\ ~Blank(chunking.text)
    /\ Len(chunking.out) >= 2
    /\ LET t == Trimmed(chunking.text)
           covered == Covered(chunking.text, chunking.out)
       IN  /\ \A p \in 1..(MIN_CHUNK_LEN - 1) : ~IsSpace(t[p]) /\ p \notin covered
           /\ Len(Fragments(chunking.text)[1]) = MIN_CHUNK_LEN - 1

\* no build is between the first and the last of its assignments to the
\* published fields
NoneAssigning ==
    \A t \in Threads :
        bpc[t] \notin {"pub2", "pub3", "pub4", "pub5", "pub6", "pub7",
                       "empty2", "empty3", "empty4", "empty5", "empty6"}

\* C29: whenever no build is in the middle of its assignments, so after
\* every build that has completed, by publishing, by the reset of the empty
\* corpus or by failing, index_stats agrees with the published snapshot:
\* total_chunks is the length of the chunk list and the sum of the
\* per-folder counts, and every folder of the folder mapping has a count
\* equal to the length of its position list.
C29_StatsAgree ==
    NoneAssigning =>
        LET folders == index_stats.folders
            sum[k \in 0..Len(folders)] ==
                IF k = 0 THEN 0 ELSE sum[k - 1] + folders[k].chunks
        IN  /\ index_stats.total_chunks = Len(Published.chunks)
            /\ index_stats.total_chunks = sum[Len(folders)]
            /\ \A k \in 1..Len(Published.fi) :
                   \E m \in 1..Len(folders) :
                       /\ folders[m].folder = Published.fi[k].folder
                       /\ folders[m].chunks = Len(Published.fi[k].idxs)

\* a build run by a Timer has published chunks of two folders over the
\* snapshot of the startup build, and has returned
C29_SecondSnapshotPublished ==
    /\ NoneAssigning
    /\ \E t \in Timers : bpc[t] = "done" /\ last_index_update = t + 1
    /\ Len(Published.fi) = 2
    /\ Len(index_stats.folders) >= 2
    /\ index_stats.total_chunks = 2

\* C30: against a snapshot with chunks in which no folder has more than
\* FOLDER_SCAN_CAP chunks, a call that returns has a first result; no chunk
\* of the snapshot is closer to the query than it, its score is the
\* similarity of a chunk with its text, and its score is the folder score of
\* the folder ranked first.
C30_FirstResultIsClosest ==
    /\ reader.pc = "done" /\ reader.out = "returned"
    /\ Published.chunks # <<>>
    /\ reader.top_k_folders >= 1 /\ reader.top_k_chunks >= 1
    /\ \A f \in 1..Len(Published.fi) : Len(Published.fi[f].idxs) <= FOLDER_SCAN_CAP
    => /\ reader.results # <<>>
       /\ LET q == Embed(reader.query)
              first == reader.results[1]
              vecs == heap[global_index].vecs
          IN  /\ \A g \in 1..Len(vecs) : Dot(vecs[g], q) <= first.score
              /\ \E g \in 1..Len(vecs) :
                     Dot(vecs[g], q) = first.score /\ Published.chunks[g] = first.chunk
              /\ \E f \in 1..Len(Published.fi) :
                     FolderRank(f, q) = 0 /\ FolderScore(f, q) = first.score

\* the first result comes from the second folder of the mapping, which is
\* ranked first, and chunks of both folders are farther from the query
C30_ClosestInSecondFolder ==
    /\ reader.pc = "done" /\ reader.out = "returned"
    /\ Len(Published.fi) = 2
    /\ \A f \in 1..Len(Published.fi) : Len(Published.fi[f].idxs) <= FOLDER_SCAN_CAP
    /\ reader.results # <<>>
    /\ FolderRank(2, Embed(reader.query)) = 0
    /\ SameFolder(2, reader.results[1])
    /\ \A f \in 1..2 :
           \E j \in 1..Len(Published.fi[f].idxs) :
               FolderSim(f, j, Embed(reader.query)) < reader.results[1].score

=============================================================================
